---- MODULE Spec2Model ----
(***************************************************************************)
(* A model of patent_downloader: identifier validation, PDF link           *)
(* resolution, the single-item operations, the batch download, the page    *)
(* parser, the command line, the MCP tool calls and the tool calls one     *)
(* server handles concurrently.                                            *)
(*                                                                         *)
(* Python strings are sequences of one-character strings, so that          *)
(* substring tests, lower-casing, trimming and prefix tests are computed   *)
(* as the code computes them.  A Python value is a record [type, val]:     *)
(* type is the Python type name and val the characters of str(value).      *)
(***************************************************************************)
EXTENDS Integers, Sequences, FiniteSets, TLC

VARIABLES
    vInput,      \* _validate_patent_number: the argument
    vResult,     \* _validate_patent_number: "pending", "ok" or the error raised
    lContent,    \* _find_pdf_link: the parsed page, a sequence of <a> elements
    lNumber,     \* _find_pdf_link: the patent_number argument
    lResult,     \* _find_pdf_link: [state |-> "pending"] or the value returned
    dNumber,     \* download_patent called on its own: the patent_number argument
    patent_numbers, \* download_patents: the list argument
    output_dir,  \* download_patents / download_patent: the directory argument
    callback,    \* TRUE when the caller passes progress_callback=...
    pos,         \* download_patents: number of list positions processed
    results,     \* download_patents: the results dict
    batch,       \* "idle", "running", "returned" or the error that escaped
    calls,       \* one record per download_patent call, in call order
    cbCalls,     \* invocations of the progress callback, in order
    dirs,        \* the directories that exist
    files,       \* the regular files: path -> content
    pContent,    \* _parse_patent_info: the parsed page, a sequence of elements
    pResult,     \* _parse_patent_info: [state |-> "pending"] or the PatentInfo
    sOp,         \* the single-item operation called
    sNumber,     \* its patent_number argument
    sResult,     \* [state, outcome, io]: how the operation ended and its I/O
    cliArgs,     \* download_command: the argparse namespace
    cliMock,     \* TRUE when PatentDownloader is replaced by a mock
    cliWorld,    \* what the run meets: the identifiers listed in the --file
                 \* file and the network's behaviour for each requested patent
    cliCalls,    \* download_command: the calls made on the downloader
    cliExit,     \* download_command: [state |-> "pending"] or the exit code
    mRequest,    \* _handle_call_tool: the request, [name, arguments]
    mCalls,      \* _handle_call_tool: the calls made on the downloader
    mResult,     \* _handle_call_tool: [state |-> "pending"] or how it ended
    tasks,       \* the tool calls the server handles concurrently: for each
                 \* its request, its position and what it does next
    session      \* the tool calls that are inside self.downloader.session.get

vars == <<vInput, vResult, lContent, lNumber, lResult, dNumber, patent_numbers,
          output_dir, callback, pos, results, batch, calls, cbCalls,
          dirs, files, pContent, pResult, sOp, sNumber, sResult,
          cliArgs, cliMock, cliWorld, cliCalls, cliExit, mRequest, mCalls,
          mResult, tasks, session>>

vValidate == <<vInput, vResult>>
vLink == <<lContent, lNumber, lResult>>
vBatch == <<dNumber, patent_numbers, output_dir, callback, pos, results, batch,
            calls, cbCalls, dirs, files>>
vParse == <<pContent, pResult>>
vSingle == <<sOp, sNumber, sResult>>
vCli == <<cliArgs, cliMock, cliWorld, cliCalls, cliExit>>
vServer == <<tasks, session>>
vMcp == <<mRequest, mCalls, mResult, vServer>>
vOther == <<vParse, vSingle, vCli, vMcp>>
\* what the concurrent tool calls leave alone
vServerRest == <<mRequest, mCalls, mResult, dNumber, patent_numbers, output_dir,
                 callback, pos, results, batch, calls, cbCalls, vValidate,
                 vLink, vParse, vSingle, vCli>>

----------------------------------------------------------------------------
(* Bounds *)

MaxIdLen == 4        \* longest identifier the validation check enumerates
MaxAnchors == 2      \* most <a> elements in a page the link check enumerates
MaxBatch == 3        \* longest list handed to download_patents
MaxElements == 4     \* most elements in a page the parsing check enumerates
MaxCliIds == 2       \* most identifiers on a command line or in a --file file
MaxMcpIds == 2       \* most identifiers in a download_patents tool call
MaxTasks == 2        \* most tool calls the server handles at the same time

----------------------------------------------------------------------------
(* Python str operations *)

Str(s) == [type |-> "str", val |-> s]

UpperCase == <<"A","B","C","D","E","F","G","H","I","J","K","L","M",
               "N","O","P","Q","R","S","T","U","V","W","X","Y","Z">>
LowerCase == <<"a","b","c","d","e","f","g","h","i","j","k","l","m",
               "n","o","p","q","r","s","t","u","v","w","x","y","z">>

\* str.lower() on one character
LowerChar(c) ==
    IF \E i \in 1..26 : UpperCase[i] = c
    THEN LowerCase[CHOOSE i \in 1..26 : UpperCase[i] = c]
    ELSE c

\* str.lower()
Lower(s) == [i \in 1..Len(s) |-> LowerChar(s[i])]

\* the whitespace characters of the model's alphabets, which str.strip() removes
Whitespace == {" ", "\t", "\n", "\r"}

\* str.lstrip() and str.rstrip()
RECURSIVE LStrip(_)
LStrip(s) ==
    IF s # <<>> /\ Head(s) \in Whitespace THEN LStrip(Tail(s)) ELSE s

RECURSIVE RStrip(_)
RStrip(s) ==
    IF s # <<>> /\ s[Len(s)] \in Whitespace
    THEN RStrip(SubSeq(s, 1, Len(s) - 1))
    ELSE s

\* str.strip()
Strip(s) == RStrip(LStrip(s))

\* s.startswith(p)
StartsWith(s, p) == Len(p) <= Len(s) /\ SubSeq(s, 1, Len(p)) = p

\* p in s
Contains(s, p) ==
    \E i \in 0..(Len(s) - Len(p)) : SubSeq(s, i + 1, i + Len(p)) = p

\* bool(x) for the values the model passes around
Truthy(x) ==
    CASE x.type \in {"str", "bytes"} -> x.val # <<>>
      [] x.type = "NoneType" -> FALSE
      [] x.type = "int" -> x.val # <<"0">>
      [] OTHER -> TRUE

----------------------------------------------------------------------------
(* PatentDownloader._validate_patent_number *)

\* a plausible slip: `<= 3` written for `< 3`
MinLen_OffByOne == 3 + 1

MinLen == 3

\* a plausible slip: the length is taken without strip()
_validate_patent_number_NoStrip(patent_number) ==
    IF ~Truthy(patent_number) \/ patent_number.type # "str"
    THEN "InvalidPatentNumberError"
    ELSE IF Len(patent_number.val) < MinLen
         THEN "InvalidPatentNumberError"
         ELSE "ok"

\* the handler's result: "ok" when it returns, else the error it raises
_validate_patent_number(patent_number) ==
    IF ~Truthy(patent_number) \/ patent_number.type # "str"
    THEN "InvalidPatentNumberError"
    ELSE IF Len(Strip(patent_number.val)) < MinLen
         THEN "InvalidPatentNumberError"
         ELSE "ok"

----------------------------------------------------------------------------
(* Inputs of the validation check *)

SeqsUpTo(S, n) == UNION {[1..k -> S] : k \in 0..n}

IdChars == {"A", "7", " ", "\t"}

NoneValue == [type |-> "NoneType", val |-> <<"N", "o", "n", "e">>]

NonStrings ==
    { NoneValue,
      [type |-> "int", val |-> <<"1", "2", "3">>],
      [type |-> "int", val |-> <<"0">>],
      [type |-> "bytes", val |-> <<"A", "B", "C">>],
      [type |-> "bytes", val |-> <<>>] }

ValidateInputs == {Str(s) : s \in SeqsUpTo(IdChars, MaxIdLen)} \cup NonStrings

----------------------------------------------------------------------------
(* PatentDownloader._find_pdf_link *)

\* A page is the sequence of its <a> elements in document order, as
\* BeautifulSoup(content, "html.parser") finds them: hasHref tells whether
\* the element carries an href attribute, href is the attribute's value and
\* text is get_text().
Anchor(hasHref, href, text) == [hasHref |-> hasHref, href |-> href, text |-> text]

\* soup.find_all("a", href=True)
find_all_a_href(content) == SelectSeq(content, LAMBDA a : a.hasHref)

\* the index a `for ... break` loop stops at, given the indices that match;
\* 0 when none matches
FirstIdx(S) ==
    IF S = {} THEN 0 ELSE CHOOSE i \in S : \A j \in S : i <= j

\* Strategy 1: ("download" in href or "download" in text) and "pdf" in href,
\* href and text lower-cased
Strategy1(link) ==
    LET href == Lower(link.href)
        text == Lower(link.text)
    IN (Contains(href, <<"d", "o", "w", "n", "l", "o", "a", "d">>) \/ Contains(text, <<"d", "o", "w", "n", "l", "o", "a", "d">>))
       /\ Contains(href, <<"p", "d", "f">>)

\* Strategy 2: text.lower() == "download pdf" or "download" in text.lower(),
\* text stripped
Strategy2(link) ==
    LET text == Strip(link.text)
    IN Lower(text) = <<"d", "o", "w", "n", "l", "o", "a", "d", " ", "p", "d", "f">> \/ Contains(Lower(text), <<"d", "o", "w", "n", "l", "o", "a", "d">>)

\* Strategy 3: "/download" in href or "download=true" in href
Strategy3(link) ==
    Contains(link.href, <<"/", "d", "o", "w", "n", "l", "o", "a", "d">>) \/ Contains(link.href, <<"d", "o", "w", "n", "l", "o", "a", "d", "=", "t", "r", "u", "e">>)

Origin == <<"h", "t", "t", "p", "s", ":", "/", "/", "p", "a", "t", "e", "n", "t", "s", ".", "g", "o", "o", "g", "l", "e", ".", "c", "o", "m">>

\* f"https://patents.google.com/patent/{patent_number}/en/download"
GuessedUrl(patent_number) ==
    <<"h", "t", "t", "p", "s", ":", "/", "/", "p", "a", "t", "e", "n", "t", "s", ".", "g", "o", "o", "g", "l", "e", ".", "c", "o", "m", "/", "p", "a", "t", "e", "n", "t", "/">> \o patent_number.val \o <<"/", "e", "n", "/", "d", "o", "w", "n", "l", "o", "a", "d">>

\* f"https://patents.google.com/xhr/query?url=patent={patent_number}&download=true"
XhrUrl(patent_number) ==
    <<"h", "t", "t", "p", "s", ":", "/", "/", "p", "a", "t", "e", "n", "t", "s", ".", "g", "o", "o", "g", "l", "e", ".", "c", "o", "m", "/", "x", "h", "r", "/", "q", "u", "e", "r", "y", "?", "u", "r", "l", "=", "p", "a", "t", "e", "n", "t", "=">> \o patent_number.val
        \o <<"&", "d", "o", "w", "n", "l", "o", "a", "d", "=", "t", "r", "u", "e">>

\* the `# Normalize the URL` block
NormalizeUrl(pdf_link) ==
    IF Truthy(pdf_link)
    THEN IF StartsWith(pdf_link.val, <<"/">>)
         THEN Str(Origin \o pdf_link.val)
         ELSE IF ~StartsWith(pdf_link.val, <<"h", "t", "t", "p">>)
              THEN Str(Origin \o <<"/">> \o pdf_link.val)
              ELSE pdf_link
    ELSE pdf_link

\* a plausible slip: the `if not pdf_link` guard of the later loops is left
\* out, so the last strategy with a match wins
TakeFirst_Unguarded(pdf_link, links, S) ==
    IF S = {} THEN pdf_link ELSE Str(links[FirstIdx(S)].href)

\* one strategy's loop: skipped when an earlier strategy left a link, else
\* pdf_link = link["href"] of the first link among the matching indices S
TakeFirst(pdf_link, links, S) ==
    IF Truthy(pdf_link) \/ S = {} THEN pdf_link ELSE Str(links[FirstIdx(S)].href)

\* a plausible slip: the `if not pdf_link` guard is left out
Fallback_Unguarded(pdf_link, url) == Str(url)

\* Strategy 4 and the assignment after it
Fallback(pdf_link, url) == IF Truthy(pdf_link) THEN pdf_link ELSE Str(url)

\* the value _find_pdf_link returns
_find_pdf_link(content, patent_number) ==
    LET Cascade(links) ==
            NormalizeUrl(
              Fallback(
                Fallback(
                  TakeFirst(
                    TakeFirst(
                      TakeFirst(NoneValue, links,
                                {i \in 1..Len(links) : Strategy1(links[i])}),
                      links, {i \in 1..Len(links) : Strategy2(links[i])}),
                    links, {i \in 1..Len(links) : Strategy3(links[i])}),
                  GuessedUrl(patent_number)),
                XhrUrl(patent_number)))
    IN Cascade(find_all_a_href(content))

----------------------------------------------------------------------------
(* Inputs of the link check *)

LinkHrefs ==
    { <<"/", "d", "o", "w", "n", "l", "o", "a", "d", ".", "p", "d", "f">>, <<"/", "s", "o", "m", "e", "-", "l", "i", "n", "k">>, <<"/", "p", "a", "t", "e", "n", "t", "/", "d", "o", "w", "n", "l", "o", "a", "d">>, <<"h", "t", "t", "p", "d", "/", "x", ".", "p", "d", "f">>,
      <<"h", "t", "t", "p", "s", ":", "/", "/", "e", ".", "c", "o", "m", "/", "a", ".", "p", "d", "f">>, <<>>, <<"x", "?", "d", "o", "w", "n", "l", "o", "a", "d", "=", "t", "r", "u", "e">>, <<"/", "D", "O", "W", "N", "L", "O", "A", "D", ".", "P", "D", "F">>,
      <<"f", "t", "p", ":", "/", "/", "e", "/", "a", ".", "p", "d", "f">>,
      \* an href that spells the second fallback URL of identifier US1
      <<"/", "x", "h", "r", "/", "q", "u", "e", "r", "y", "?", "u", "r", "l", "=", "p", "a", "t", "e", "n", "t", "=", "U", "S", "1", "&", "d", "o", "w", "n", "l", "o", "a", "d", "=", "t", "r", "u", "e">> }

LinkTexts == { <<"D", "o", "w", "n", "l", "o", "a", "d", " ", "P", "D", "F">>, <<" ", "d", "o", "w", "n", "l", "o", "a", "d", " ">>, <<"A", "b", "o", "u", "t">> }

LinkAnchors ==
    {Anchor(TRUE, h, t) : h \in LinkHrefs, t \in LinkTexts}
        \cup {Anchor(FALSE, <<>>, <<"D", "o", "w", "n", "l", "o", "a", "d", " ", "P", "D", "F">>)}

LinkPages == SeqsUpTo(LinkAnchors, MaxAnchors)

LinkNumbers == {Str(<<"U", "S", "1">>), Str(<<"A", "/", "B">>)}

----------------------------------------------------------------------------
(* The filesystem: pathlib.Path, Path.mkdir and open(..., "wb") *)

\* A directory or file is named by the sequence of its path components from
\* the root; dirs is the set of directories, files maps a file to its bytes.
Cwd == << <<"c", "w", "d">> >>

DotDot == <<".", ".">>

RECURSIVE SplitSlash(_)
SplitSlash(s) ==
    IF Contains(s, <<"/">>)
    THEN LET i == CHOOSE k \in 1..Len(s) :
                      s[k] = "/" /\ \A j \in 1..(k - 1) : s[j] # "/"
         IN <<SubSeq(s, 1, i - 1)>> \o SplitSlash(SubSeq(s, i + 1, Len(s)))
    ELSE <<s>>

\* pathlib.Path(s): empty and "." components are dropped, ".." is kept
PathOf(s) ==
    [abs |-> StartsWith(s, <<"/">>),
     parts |-> SelectSeq(SplitSlash(s), LAMBDA c : c # <<>> /\ c # <<".">>)]

\* Path.__truediv__: an absolute right operand replaces the left one
PathJoin(p, s) ==
    LET q == PathOf(s)
    IN IF q.abs THEN q ELSE [abs |-> p.abs, parts |-> p.parts \o q.parts]

PathStart(p) == IF p.abs THEN <<>> ELSE Cwd

Front(s) == SubSeq(s, 1, Len(s) - 1)

StepInto(cur, c) ==
    IF c = DotDot THEN (IF cur = <<>> THEN <<>> ELSE Front(cur)) ELSE Append(cur, c)

\* the kernel's path walk: every directory on the way has to exist
RECURSIVE Walk(_, _, _)
Walk(cur, parts, ds) ==
    IF parts = <<>>
    THEN [ok |-> TRUE, at |-> cur]
    ELSE LET nxt == StepInto(cur, Head(parts))
         IN IF nxt \in ds
            THEN Walk(nxt, Tail(parts), ds)
            ELSE [ok |-> FALSE, at |-> nxt]

\* the directories Path.mkdir(parents=True) walks through
RECURSIVE WalkDirs(_, _)
WalkDirs(cur, parts) ==
    IF parts = <<>>
    THEN {cur}
    ELSE {cur} \cup WalkDirs(StepInto(cur, Head(parts)), Tail(parts))

\* the file open(path) names: [ok, key]
FileKey(p, ds) ==
    LET Key(parent) ==
            [ok |-> parent.ok, key |-> Append(parent.at, p.parts[Len(p.parts)])]
    IN Key(Walk(PathStart(p), Front(p.parts), ds))

\* one I/O operation of a call: what it was applied to, how it ended
\* ("ok"/"none" or the exception raised) and the bytes it carried
IoEvent(op, target, referer, result, data) ==
    [op |-> op, target |-> target, referer |-> referer, result |-> result,
     data |-> data]

\* the kernel's walk along the directories of a path: [err, at], err being
\* "none", NotADirectoryError (a file on the way) or FileNotFoundError
RECURSIVE Resolve(_, _, _, _)
Resolve(cur, parts, ds, fs) ==
    IF parts = <<>>
    THEN [err |-> "none", at |-> cur]
    ELSE LET Step(nxt) ==
                 IF nxt \in DOMAIN fs THEN [err |-> "NotADirectoryError", at |-> nxt]
                 ELSE IF nxt \notin ds THEN [err |-> "FileNotFoundError", at |-> nxt]
                 ELSE Resolve(nxt, Tail(parts), ds, fs)
         IN Step(StepInto(cur, Head(parts)))

\* os.mkdir(path): [raise, dirs, made], made being the directories the call
\* of Path.mkdir has created so far, in order.  fail is "ok" or the
\* exception a creation raises once failAt directories have been made.
os_mkdir(start, parts, fail, failAt, made, ds, fs) ==
    LET Make(w, target) ==
            IF w.err # "none"
            THEN [raise |-> w.err, dirs |-> ds, made |-> made]
            ELSE IF parts[Len(parts)] = DotDot \/ target \in ds \/ target \in DOMAIN fs
            THEN [raise |-> "FileExistsError", dirs |-> ds, made |-> made]
            ELSE IF fail # "ok" /\ Len(made) >= failAt
            THEN [raise |-> fail, dirs |-> ds, made |-> made]
            ELSE [raise |-> "none", dirs |-> ds \cup {target},
                  made |-> Append(made, target)]
        At(w) == Make(w, StepInto(w.at, parts[Len(parts)]))
    IN IF parts = <<>>
       THEN [raise |-> "FileExistsError", dirs |-> ds, made |-> made]
       ELSE At(Resolve(start, Front(parts), ds, fs))

\* pathlib's Path.mkdir(parents=True, exist_ok=True): os.mkdir, on
\* FileNotFoundError the parent first and then os.mkdir again, and any other
\* OSError is passed over when the path is a directory: [raise, dirs, made]
RECURSIVE PathMkdir(_, _, _, _, _, _, _)
PathMkdir(start, parts, fail, failAt, made, ds, fs) ==
    LET ExistOk(r) ==
            IF r.raise # "none" /\ Walk(start, parts, r.dirs).ok
            THEN [raise |-> "none", dirs |-> r.dirs, made |-> r.made]
            ELSE r
        Retry(r) == IF r.raise = "FileNotFoundError" THEN r ELSE ExistOk(r)
        Again(parent) ==
            IF parent.raise # "none"
            THEN parent
            ELSE Retry(os_mkdir(start, parts, fail, failAt, parent.made,
                                parent.dirs, fs))
        First(r) ==
            IF r.raise # "FileNotFoundError" THEN ExistOk(r)
            ELSE IF parts = <<>> THEN r
            ELSE Again(PathMkdir(start, Front(parts), fail, failAt, made, ds, fs))
    IN First(os_mkdir(start, parts, fail, failAt, made, ds, fs))

\* output_path.mkdir(parents=True, exist_ok=True): [raise, dirs, io].
\* env.mkdir is "ok" or the OSError the filesystem answers with, env.made
\* the number of directories made before it does: none when the path cannot
\* be walked at all, some when a directory just made cannot be written to.
\* The directories made stay when the call fails; the event's data lists
\* them.
mkdir(output_path, env, ds, fs) ==
    LET End(r) ==
            [raise |-> r.raise, dirs |-> r.dirs,
             io |-> <<IoEvent("mkdir", output_path.parts, <<>>, r.raise, r.made)>>]
        Failing(n) ==
            IF env.made = 0 \/ n <= 1
            THEN End([raise |-> env.mkdir, dirs |-> ds, made |-> <<>>])
            ELSE End(PathMkdir(PathStart(output_path), output_path.parts, env.mkdir,
                               IF env.made < n - 1 THEN env.made ELSE n - 1,
                               <<>>, ds, fs))
        Run(free) ==
            IF env.mkdir = "ok" THEN End(free) ELSE Failing(Len(free.made))
    IN Run(PathMkdir(PathStart(output_path), output_path.parts, "ok", 0, <<>>, ds, fs))

\* a write that fails leaves env.partial bytes behind, at most all of them
PartialLen(data, env) == IF env.partial < Len(data) THEN env.partial ELSE Len(data)

\* the exception open(output_file, "wb") raises, "none" when it opens
OpenError(k, env, ds, fs) ==
    IF ~k.ok
    THEN IF Front(k.key) \in DOMAIN fs THEN "NotADirectoryError"
         ELSE "FileNotFoundError"
    ELSE IF k.key \in ds THEN "IsADirectoryError"
    ELSE IF env.write = "open_fails" THEN "PermissionError"
    ELSE "none"

\* the exception f.write(pdf_data) raises, "none" when it writes everything
WriteError(env) == IF env.write = "write_fails" THEN "OSError" ELSE "none"

\* the bytes f.write leaves in the file
Written(pdf_data, env) ==
    IF env.write = "write_fails"
    THEN SubSeq(pdf_data, 1, PartialLen(pdf_data, env))
    ELSE pdf_data

\* with open(output_file, "wb") as f: f.write(pdf_data): [raise, files, io]
open_write(output_file, pdf_data, env, ds, fs) ==
    LET Open(k, openErr, written) ==
            IF openErr # "none"
            THEN [raise |-> openErr, files |-> fs,
                  io |-> <<IoEvent("open", k.key, <<>>, openErr, <<>>)>>]
            ELSE [raise |-> WriteError(env),
                  files |-> [f \in DOMAIN fs \cup {k.key} |->
                                IF f = k.key THEN written ELSE fs[f]],
                  io |-> <<IoEvent("open", k.key, <<>>, "none", <<>>),
                           IoEvent("write", k.key, <<>>, WriteError(env), written)>>]
    IN Open(FileKey(output_file, ds), OpenError(FileKey(output_file, ds), env, ds, fs),
            Written(pdf_data, env))

----------------------------------------------------------------------------
(* Exceptions *)

\* requests.RequestException and the subclasses the session raises
IsRequestException(e) ==
    e \in {"RequestException", "ConnectionError", "Timeout", "HTTPError"}

\* exceptions.py: the package's errors all derive from PatentDownloadError
IsPatentDownloadError(e) ==
    e \in {"PatentDownloadError", "PatentNotFoundError", "DownloadFailedError",
           "NetworkError", "InvalidPatentNumberError"}

\* a plausible slip: the catch-all clause comes first
_retrieve_pdf_link_except_CatchAll(e) == "DownloadFailedError"

\* the except clauses of _retrieve_pdf_link: the error that leaves it
_retrieve_pdf_link_except(e) ==
    IF IsRequestException(e) THEN "NetworkError"
    ELSE IF IsPatentDownloadError(e) THEN e
    ELSE "DownloadFailedError"

\* a plausible slip: the catch-all clause is missing, so an exception that
\* is neither a RequestException nor a PatentDownloadError escapes as it is
download_patent_except_NoCatchAll(e) ==
    IF IsRequestException(e) THEN "NetworkError" ELSE e

\* the except clauses of download_patent: the error that leaves it
download_patent_except(e) ==
    IF IsRequestException(e) THEN "NetworkError"
    ELSE IF IsPatentDownloadError(e) THEN e
    ELSE "DownloadFailedError"

----------------------------------------------------------------------------
(* The HTTP session *)

\* What the network does during one download_patent call is the record env:
\*   page, pdf   "ok", or the exception session.get / raise_for_status raises
\*   html        the page's <a> elements when page = "ok"
\*   body, ctype the PDF response's content and content-type when pdf = "ok"
\*   mkdir       "ok" or the OSError Path.mkdir raises
\*   write       "ok", "open_fails" or "write_fails"

\* f"https://patents.google.com/patent/{patent_number}/en"
PatentUrl(patent_number) ==
    <<"h", "t", "t", "p", "s", ":", "/", "/", "p", "a", "t", "e", "n", "t", "s", ".", "g", "o", "o", "g", "l", "e", ".", "c", "o", "m", "/", "p", "a", "t", "e", "n", "t", "/">> \o patent_number.val \o <<"/", "e", "n">>

\* session.get(patent_url); raise_for_status(); _find_pdf_link(...):
\* [raise, value, io]
_retrieve_pdf_link(patent_number, patent_url, env) ==
    LET Fetch(get, pdf_link) ==
            IF env.page # "ok"
            THEN [raise |-> _retrieve_pdf_link_except(env.page),
                  value |-> NoneValue, io |-> get]
            ELSE IF ~Truthy(pdf_link)
            THEN [raise |-> _retrieve_pdf_link_except("PatentNotFoundError"),
                  value |-> NoneValue, io |-> get]
            ELSE [raise |-> "none", value |-> pdf_link, io |-> get]
    IN Fetch(<<IoEvent("GET", patent_url, <<>>, env.page,
                       IF env.page = "ok" THEN env.html ELSE <<>>)>>,
             _find_pdf_link(env.html, patent_number))

\* the `Verify it's actually a PDF` test, which only logs a warning
LooksLikePdf(env) ==
    Contains(Lower(env.ctype), <<"p", "d", "f">>) \/ StartsWith(env.body, <<"%", "P", "D", "F">>)

\* a plausible slip: the Referer header is left out
_download_pdf_data_NoReferer(pdf_link, patent_number, referer, env) ==
    LET Fetch(get) ==
            IF env.pdf # "ok"
            THEN [raise |-> "DownloadFailedError", value |-> <<>>,
                  warned |-> FALSE, io |-> get]
            ELSE [raise |-> "none", value |-> env.body,
                  warned |-> ~LooksLikePdf(env), io |-> get]
    IN Fetch(<<IoEvent("GET", pdf_link.val, <<>>, env.pdf,
                       IF env.pdf = "ok" THEN env.body ELSE <<>>)>>)

\* session.get(pdf_link, headers={"Referer": referer}); raise_for_status():
\* [raise, value, warned, io]
_download_pdf_data(pdf_link, patent_number, referer, env) ==
    LET Fetch(get) ==
            IF env.pdf # "ok"
            THEN [raise |-> "DownloadFailedError", value |-> <<>>,
                  warned |-> FALSE, io |-> get]
            ELSE [raise |-> "none", value |-> env.body,
                  warned |-> ~LooksLikePdf(env), io |-> get]
    IN Fetch(<<IoEvent("GET", pdf_link.val, referer, env.pdf,
                       IF env.pdf = "ok" THEN env.body ELSE <<>>)>>)

\* _download_pdf: every exception is caught and turned into False:
\* [value, warned, files, io]
_download_pdf(pdf_link, patent_number, output_path, referer, env, ds, fs) ==
    LET Save(data) ==
            LET End(w) ==
                    [value |-> (w.raise = "none"), warned |-> data.warned,
                     files |-> w.files, io |-> data.io \o w.io]
            IN IF data.raise # "none"
               THEN [value |-> FALSE, warned |-> data.warned, files |-> fs,
                     io |-> data.io]
               ELSE End(open_write(PathJoin(output_path, patent_number.val \o <<".", "p", "d", "f">>),
                                   data.value, env, ds, fs))
    IN Save(_download_pdf_data(pdf_link, patent_number, referer, env))

CallRecord(patent_number, dir, outcome, warned, io) ==
    [patent_number |-> patent_number, output_dir |-> dir, outcome |-> outcome,
     warned |-> warned, io |-> io]

\* download_patent: outcome is "True", "False" or the error raised:
\* [call, dirs, files]
download_patent(patent_number, dir, env, ds, fs) ==
    LET Raise(e, io, ds2) ==
            [call |-> CallRecord(patent_number, dir, download_patent_except(e),
                                 FALSE, io),
             dirs |-> ds2, files |-> fs]
        Return(mk, link, d) ==
            [call |-> CallRecord(patent_number, dir,
                                 IF d.value THEN "True" ELSE "False",
                                 d.warned, mk.io \o link.io \o d.io),
             dirs |-> mk.dirs, files |-> d.files]
        Body(v, patent_url, output_path, mk, link) ==
            IF v # "ok" THEN Raise(v, <<>>, ds)
            ELSE IF dir.type # "str" THEN Raise("TypeError", <<>>, ds)
            ELSE IF mk.raise # "none" THEN Raise(mk.raise, mk.io, mk.dirs)
            ELSE IF link.raise # "none"
            THEN Raise(link.raise, mk.io \o link.io, mk.dirs)
            ELSE IF ~Truthy(link.value)
            THEN Raise("PatentNotFoundError", mk.io \o link.io, mk.dirs)
            ELSE Return(mk, link,
                        _download_pdf(link.value, patent_number, output_path,
                                      patent_url, env, mk.dirs, fs))
    IN Body(_validate_patent_number(patent_number), PatentUrl(patent_number),
            PathOf(dir.val), mkdir(PathOf(dir.val), env, ds, fs),
            _retrieve_pdf_link(patent_number, PatentUrl(patent_number), env))

----------------------------------------------------------------------------
(* PatentDownloader.download_patents *)

\* a plausible slip: an identifier already in the dict keeps its first flag
DictSet_KeepFirst(d, key, value) ==
    IF \E i \in 1..Len(d) : d[i].key = key
    THEN d
    ELSE Append(d, [key |-> key, value |-> value])

\* results[key] = value on a dict kept as a sequence of entries in insertion
\* order: an existing key keeps its place and takes the new value
DictSet(d, key, value) ==
    IF \E i \in 1..Len(d) : d[i].key = key
    THEN [i \in 1..Len(d) |->
            IF d[i].key = key THEN [key |-> key, value |-> value] ELSE d[i]]
    ELSE Append(d, [key |-> key, value |-> value])

DictKeys(d) == {d[i].key : i \in 1..Len(d)}

DictGet(d, key) == d[CHOOSE i \in 1..Len(d) : d[i].key = key].value

\* `failed = [pn for pn, success in results.items() if not success]`
failed(items) == SelectSeq(items, LAMBDA it : ~it.value)

IsError(outcome) == outcome \notin {"True", "False"}

\* a plausible slip: only the package's own NetworkError is caught
download_patents_catches_OnlyNetwork(e) == e = "NetworkError"

\* `except Exception` in the loop of download_patents
download_patents_catches(e) == TRUE

\* a plausible slip: the except branch records True
download_patents_flag_ErrorAsTrue(outcome) ==
    IF IsError(outcome) THEN TRUE ELSE outcome = "True"

\* the flag the loop body records for one download_patent outcome
download_patents_flag(outcome) ==
    IF IsError(outcome) THEN FALSE ELSE outcome = "True"

----------------------------------------------------------------------------
(* Inputs of the download checks *)

BaseDirs == {<<>>, Cwd}

OldContent == <<"o", "l", "d">>

\* the directories and files before the call: nothing, or an earlier
\* download of US1 into out
NoFiles == [f \in {} |-> <<>>]
InitialFs ==
    { [dirs |-> BaseDirs, files |-> NoFiles],
      [dirs |-> BaseDirs \cup {Cwd \o << <<"o", "u", "t">> >>},
       files |-> [f \in {Cwd \o << <<"o", "u", "t">>, <<"U", "S", "1", ".", "p", "d", "f">> >>} |-> OldContent]] }

DownloadNumbers ==
    { Str(<<"U", "S", "1">>), Str(<<"A", "B">>), Str(<<"A", "/", "B">>), Str(<<".", ".", "/", "X">>),
      Str(<<"U", "S", "1", ".", "p", "d", "f", "/", "X">>), Str(<<>>), NoneValue }

\* a directory to make, one below it, one below the file of the earlier
\* download, an absolute one, and None, on which Path(output_dir) raises
\* TypeError
DownloadDirs ==
    { Str(<<"o", "u", "t">>), Str(<<"o", "u", "t", "/", "s", "u", "b">>),
      Str(<<"o", "u", "t", "/", "U", "S", "1", ".", "p", "d", "f", "/", "s", "u", "b">>), Str(<<"/", "a", "b", "s">>), NoneValue }

NoLinkPage == <<>>
DownloadLinkPage == << Anchor(TRUE, <<"/", "d", "o", "w", "n", "l", "o", "a", "d">>, <<"D", "o", "w", "n", "l", "o", "a", "d", " ", "P", "D", "F">>) >>
OtherLinkPage == << Anchor(FALSE, <<>>, <<"A", "b", "o", "u", "t">>), Anchor(TRUE, <<"h", "t", "t", "p", "d", "/", "x", ".", "p", "d", "f">>, <<"D", "o", "w", "n", "l", "o", "a", "d", " ", "P", "D", "F">>) >>

Bodies == { <<"%", "P", "D", "F", "-", "1">>, <<"<", "h", "t", "m", "l", ">">> }

\* the numbers of bytes a failing write of a six-byte body may leave
PartialLens == {0, 1, 3, 5, 6}

SingleEnvs ==
    { e \in
    [ mkdir : {"ok", "PermissionError"},
      made : {0, 1},
      partial : PartialLens,
      page : {"ok", "ConnectionError", "HTTPError", "ValueError"},
      html : {NoLinkPage, DownloadLinkPage, OtherLinkPage},
      pdf : {"ok", "ConnectionError", "HTTPError", "ValueError"},
      body : Bodies,
      ctype : { <<"a", "p", "p", "l", "i", "c", "a", "t", "i", "o", "n", "/", "p", "d", "f">>, <<"t", "e", "x", "t", "/", "h", "t", "m", "l">> },
      write : {"ok", "open_fails", "write_fails"} ] :
      /\ e.mkdir = "ok" => e.made = 0
      /\ e.write # "write_fails" => e.partial = 0 }

BatchNumbers == { Str(<<"U", "S", "1">>), Str(<<"E", "P", "2">>), Str(<<"A", "B">>) }

BatchEnvs ==
    [ mkdir : {"ok", "PermissionError"},
      made : {0},
      partial : {3},
      page : {"ok", "ConnectionError", "HTTPError"},
      html : {DownloadLinkPage},
      pdf : {"ok", "HTTPError"},
      body : { <<"%", "P", "D", "F", "-", "1">> },
      ctype : { <<"a", "p", "p", "l", "i", "c", "a", "t", "i", "o", "n", "/", "p", "d", "f">> },
      write : {"ok", "open_fails", "write_fails"} ]

----------------------------------------------------------------------------
(* PatentDownloader._parse_patent_info and its extractors *)

\* A page is the sequence of its elements in document order, as
\* BeautifulSoup(content, "html.parser") finds them: name is the tag name,
\* itemprop the value of the itemprop attribute ("none" when the element has
\* no such attribute) and text is get_text().
Element(name, itemprop, text) == [name |-> name, itemprop |-> itemprop, text |-> text]

\* soup.find_all(name, itemprop=itemprop)
find_all(soup, name, itemprop) ==
    SelectSeq(soup, LAMBDA e : e.name = name /\ e.itemprop = itemprop)

\* soup.find_all(name)
find_all_name(soup, name) == SelectSeq(soup, LAMBDA e : e.name = name)

\* elem.get_text().strip() of the first element found
FirstText(elems) == Strip(elems[1].text)

_extract_title(soup) ==
    IF find_all(soup, "span", "title") # <<>>
    THEN FirstText(find_all(soup, "span", "title"))
    ELSE IF find_all_name(soup, "h1") # <<>>
    THEN FirstText(find_all_name(soup, "h1"))
    ELSE <<"U", "n", "k", "n", "o", "w", "n", " ", "T", "i", "t", "l", "e">>

\* a plausible slip: the `if name` test is left out
_extract_inventors_KeepEmpty(soup) ==
    LET Names(elems) == [i \in 1..Len(elems) |-> Strip(elems[i].text)]
    IN Names(find_all(soup, "span", "inventor"))

_extract_inventors(soup) ==
    LET Names(elems) ==
            SelectSeq([i \in 1..Len(elems) |-> Strip(elems[i].text)],
                      LAMBDA name : name # <<>>)
    IN Names(find_all(soup, "span", "inventor"))

_extract_assignee(soup) ==
    IF find_all(soup, "span", "assignee") # <<>>
    THEN FirstText(find_all(soup, "span", "assignee"))
    ELSE <<"U", "n", "k", "n", "o", "w", "n", " ", "A", "s", "s", "i", "g", "n", "e", "e">>

_extract_publication_date(soup) ==
    IF find_all(soup, "time", "publicationDate") # <<>>
    THEN FirstText(find_all(soup, "time", "publicationDate"))
    ELSE <<"U", "n", "k", "n", "o", "w", "n", " ", "D", "a", "t", "e">>

_extract_abstract(soup) ==
    IF find_all(soup, "div", "abstract") # <<>>
    THEN FirstText(find_all(soup, "div", "abstract"))
    ELSE <<"N", "o", " ", "a", "b", "s", "t", "r", "a", "c", "t", " ", "a", "v", "a", "i", "l", "a", "b", "l", "e">>

\* models.py: PatentInfo is a plain record of the values it is built from
PatentInfo(patent_number, title, inventors, assignee, publication_date, abstract, url) ==
    [patent_number |-> patent_number, title |-> title, inventors |-> inventors,
     assignee |-> assignee, publication_date |-> publication_date,
     abstract |-> abstract, url |-> url]

_parse_patent_info(content, patent_number, patent_url) ==
    PatentInfo(patent_number, _extract_title(content), _extract_inventors(content),
               _extract_assignee(content), _extract_publication_date(content),
               _extract_abstract(content), patent_url)

----------------------------------------------------------------------------
(* Inputs of the page-parsing check *)

\* tagged elements whose text needs trimming, is empty or is only
\* whitespace, a heading, and an element tagged title that is not a span
PageElements ==
    { Element("span", "title", <<" ", "T", " ">>),
      Element("span", "title", <<>>),
      Element("h1", "none", <<"H", "1", " ">>),
      Element("h2", "title", <<"D">>),
      Element("span", "inventor", <<" ", "A", " ">>),
      Element("span", "inventor", <<" ">>),
      Element("span", "assignee", <<"C", "o">>),
      Element("time", "publicationDate", <<"2", "0", "2", "3">>),
      Element("div", "abstract", <<" ", "A", "b", "s", "\n">>) }

InfoPages == SeqsUpTo(PageElements, MaxElements)

ParseNumber == Str(<<"U", "S", "1">>)

NoInfo == PatentInfo(NoneValue, <<>>, <<>>, <<>>, <<>>, <<>>, <<>>)

----------------------------------------------------------------------------
(* PatentDownloader.get_patent_info, download_patent_data, download_patents *)

\* the except clauses of get_patent_info: the error that leaves it
get_patent_info_except(e) ==
    IF IsRequestException(e) THEN "NetworkError" ELSE "PatentNotFoundError"

\* a plausible slip: the page is requested before the identifier is checked
get_patent_info_GetFirst(patent_number, env) ==
    LET Fetch(v, patent_url) ==
            IF env.page # "ok"
            THEN [raise |-> get_patent_info_except(env.page), value |-> NoInfo,
                  io |-> <<IoEvent("GET", patent_url, <<>>, env.page, <<>>)>>]
            ELSE IF v # "ok"
            THEN [raise |-> get_patent_info_except(v), value |-> NoInfo,
                  io |-> <<IoEvent("GET", patent_url, <<>>, env.page, env.elems)>>]
            ELSE [raise |-> "none",
                  value |-> _parse_patent_info(env.elems, patent_number, patent_url),
                  io |-> <<IoEvent("GET", patent_url, <<>>, env.page, env.elems)>>]
    IN Fetch(_validate_patent_number(patent_number), PatentUrl(patent_number))

\* get_patent_info: env.page is "ok" or the exception of the GET, env.elems
\* the page's elements: [raise, value, io]
get_patent_info(patent_number, env) ==
    LET Fetch(v, patent_url) ==
            IF v # "ok"
            THEN [raise |-> get_patent_info_except(v), value |-> NoInfo, io |-> <<>>]
            ELSE IF env.page # "ok"
            THEN [raise |-> get_patent_info_except(env.page), value |-> NoInfo,
                  io |-> <<IoEvent("GET", patent_url, <<>>, env.page, <<>>)>>]
            ELSE [raise |-> "none",
                  value |-> _parse_patent_info(env.elems, patent_number, patent_url),
                  io |-> <<IoEvent("GET", patent_url, <<>>, env.page, env.elems)>>]
    IN Fetch(_validate_patent_number(patent_number), PatentUrl(patent_number))

\* the except clause of download_patent_data: the error that leaves it
download_patent_data_except(e) == "DownloadFailedError"

\* download_patent_data: [raise, value, io]
download_patent_data(patent_number, env) ==
    LET Data(link, d) ==
            IF d.raise # "none"
            THEN [raise |-> download_patent_data_except(d.raise), value |-> <<>>,
                  io |-> link.io \o d.io]
            ELSE [raise |-> "none", value |-> d.value, io |-> link.io \o d.io]
        Link(v, patent_url, link) ==
            IF v # "ok"
            THEN [raise |-> download_patent_data_except(v), value |-> <<>>, io |-> <<>>]
            ELSE IF link.raise # "none"
            THEN [raise |-> download_patent_data_except(link.raise), value |-> <<>>,
                  io |-> link.io]
            ELSE Data(link, _download_pdf_data(link.value, patent_number, patent_url, env))
    IN Link(_validate_patent_number(patent_number), PatentUrl(patent_number),
            _retrieve_pdf_link(patent_number, PatentUrl(patent_number), env))

\* the loop of download_patents after its first n iterations, envs[i] being
\* what the i-th download_patent call meets: [results, calls, dirs, files]
RECURSIVE download_patents_loop(_, _, _, _, _, _)
download_patents_loop(n, numbers, dir, envs, ds, fs) ==
    LET Record(prev, r) ==
            [results |-> DictSet(prev.results, numbers[n],
                                 download_patents_flag(r.call.outcome)),
             calls |-> Append(prev.calls, r.call),
             dirs |-> r.dirs, files |-> r.files]
        Iterate(prev) ==
            Record(prev, download_patent(numbers[n], dir, envs[n], prev.dirs, prev.files))
    IN IF n = 0
       THEN [results |-> <<>>, calls |-> <<>>, dirs |-> ds, files |-> fs]
       ELSE Iterate(download_patents_loop(n - 1, numbers, dir, envs, ds, fs))

\* download_patents(patent_numbers, output_dir)
download_patents(numbers, dir, envs, ds, fs) ==
    download_patents_loop(Len(numbers), numbers, dir, envs, ds, fs)

----------------------------------------------------------------------------
(* mcp_server.PatentDownloaderMCPServer._handle_call_tool *)

\* one call made on the shared downloader: the method, how it ended ("True",
\* "False", "returned" or the error raised) and the dict a batch returned
McpCall(method, outcome, items) == [method |-> method, outcome |-> outcome, items |-> items]

\* what a handler does: the error that leaves it ("none" if it returns a
\* CallToolResult), the result's isError, and its effects
Handled(raise, isError, mcalls, ds, fs) ==
    [raise |-> raise, isError |-> isError, calls |-> mcalls, dirs |-> ds, files |-> fs]

\* `except PatentDownloadError` of the three handlers: a result with
\* isError=True for the package's errors, any other error leaves the handler
handler_except(e, mcalls, ds, fs) ==
    IF IsPatentDownloadError(e)
    THEN Handled("none", TRUE, mcalls, ds, fs)
    ELSE Handled(e, FALSE, mcalls, ds, fs)

\* arguments.get(...) when the request carries no arguments object
GetError(arguments) == IF arguments.present THEN "none" ELSE "AttributeError"

\* ', '.join(...) over the keys of the result dict
JoinError(items) ==
    IF \E i \in 1..Len(items) : items[i].key.type # "str" THEN "TypeError" ELSE "none"

\* _handle_download_patent after its await: outcome is what download_patent
\* returned ("True", "False") or the error it raised
_handle_download_patent_resume(outcome, ds, fs) ==
    IF IsError(outcome)
    THEN handler_except(outcome, <<McpCall("download_patent", outcome, <<>>)>>, ds, fs)
    ELSE Handled("none", outcome # "True",
                 <<McpCall("download_patent", outcome, <<>>)>>, ds, fs)

_handle_download_patent(arguments, env, ds, fs) ==
    LET Done(r) == _handle_download_patent_resume(r.call.outcome, r.dirs, r.files)
    IN IF GetError(arguments) # "none"
       THEN handler_except(GetError(arguments), <<>>, ds, fs)
       ELSE IF ~Truthy(arguments.patent_number)
       THEN Handled("none", TRUE, <<>>, ds, fs)
       ELSE Done(download_patent(arguments.patent_number, arguments.output_dir,
                                 env[1], ds, fs))

\* _handle_download_patents after its await: items is the dict
\* download_patents returned
_handle_download_patents_resume(items, ds, fs) ==
    IF JoinError(items) # "none"
    THEN handler_except(JoinError(items),
                        <<McpCall("download_patents", "returned", items)>>, ds, fs)
    ELSE Handled("none", Len(failed(items)) > 0,
                 <<McpCall("download_patents", "returned", items)>>, ds, fs)

_handle_download_patents(arguments, env, ds, fs) ==
    LET Done(r) == _handle_download_patents_resume(r.results, r.dirs, r.files)
    IN IF GetError(arguments) # "none"
       THEN handler_except(GetError(arguments), <<>>, ds, fs)
       ELSE IF arguments.patent_numbers = <<>>
       THEN Handled("none", TRUE, <<>>, ds, fs)
       ELSE Done(download_patents(arguments.patent_numbers, arguments.output_dir,
                                  env, ds, fs))

\* _handle_get_patent_info after its await: outcome is "returned" or the
\* error get_patent_info raised
_handle_get_patent_info_resume(outcome, ds, fs) ==
    IF outcome # "returned"
    THEN handler_except(outcome, <<McpCall("get_patent_info", outcome, <<>>)>>, ds, fs)
    ELSE Handled("none", FALSE, <<McpCall("get_patent_info", "returned", <<>>)>>,
                 ds, fs)

_handle_get_patent_info(arguments, env, ds, fs) ==
    LET Done(r) ==
            _handle_get_patent_info_resume(IF r.raise = "none" THEN "returned"
                                           ELSE r.raise, ds, fs)
    IN IF GetError(arguments) # "none"
       THEN handler_except(GetError(arguments), <<>>, ds, fs)
       ELSE IF ~Truthy(arguments.patent_number)
       THEN Handled("none", TRUE, <<>>, ds, fs)
       ELSE Done(get_patent_info(arguments.patent_number, env[1]))

\* a plausible slip: the outer handler only logs and lets the error through
_handle_call_tool_except_Reraise(h) == h

\* `except Exception` of _handle_call_tool: a result with isError=True
_handle_call_tool_except(h) ==
    IF h.raise # "none"
    THEN Handled("none", TRUE, h.calls, h.dirs, h.files)
    ELSE h

\* _handle_call_tool: env[i] is what the i-th request of the downloader meets
_handle_call_tool(request, env, ds, fs) ==
    _handle_call_tool_except(
        CASE request.name = "download_patent" ->
                 _handle_download_patent(request.arguments, env, ds, fs)
          [] request.name = "download_patents" ->
                 _handle_download_patents(request.arguments, env, ds, fs)
          [] request.name = "get_patent_info" ->
                 _handle_get_patent_info(request.arguments, env, ds, fs)
          [] OTHER -> Handled("none", TRUE, <<>>, ds, fs))

----------------------------------------------------------------------------
(* Inputs of the tool-call check *)

ToolNames == {"download_patent", "download_patents", "get_patent_info", "list_patents"}

McpNumbers ==
    { Str(<<"U", "S", "1">>), Str(<<"E", "P", "2">>), Str(<<"A", "B">>), [type |-> "int", val |-> <<"1", "2", "3">>] }

\* the arguments object: patent_number is None and patent_numbers is empty
\* when the key is absent; present is FALSE when the request has no
\* arguments at all
McpArguments ==
    [ present : {TRUE},
      patent_number : McpNumbers \cup {NoneValue, Str(<<>>)},
      patent_numbers : SeqsUpTo(McpNumbers, MaxMcpIds),
      output_dir : {Str(<<"o", "u", "t">>)} ]
    \cup
    { [present |-> FALSE, patent_number |-> NoneValue, patent_numbers |-> <<>>,
       output_dir |-> Str(<<"o", "u", "t">>)] }

McpRequests == [name : ToolNames, arguments : McpArguments]

\* a request that fails ends the call, so what a later step would have met
\* is left at "ok"
McpEnvs ==
    { e \in [ mkdir : {"ok"},
              made : {0},
              partial : {3},
              page : {"ok", "HTTPError"},
              html : {DownloadLinkPage},
              elems : { << Element("span", "title", <<" ", "T", " ">>) >> },
              pdf : {"ok", "ConnectionError"},
              body : { <<"%", "P", "D", "F", "-", "1">> },
              ctype : { <<"a", "p", "p", "l", "i", "c", "a", "t", "i", "o", "n", "/", "p", "d", "f">> },
              write : {"ok", "write_fails"} ] :
          /\ e.page # "ok" => e.pdf = "ok"
          /\ e.pdf # "ok" \/ e.page # "ok" => e.write = "ok" }

\* the number of download_patent or get_patent_info calls the environment
\* is asked to serve: one per list position for a batch
McpNeeds(request) ==
    IF request.name = "download_patents" /\ request.arguments.patent_numbers # <<>>
    THEN Len(request.arguments.patent_numbers)
    ELSE 1

McpEnvSeqs == SeqsUpTo(McpEnvs, MaxMcpIds) \ {<<>>}

----------------------------------------------------------------------------
(* mcp_server.PatentDownloaderMCPServer: tool calls handled concurrently *)

\* The server owns one PatentDownloader, hence one session.  A handler runs
\* on the event loop up to `await loop.run_in_executor(None, ...)`, which
\* hands the blocking call to a thread of the default pool and lets the
\* event loop run other handlers; the pool has at least five threads, more
\* than MaxTasks, so a submitted call never waits for a free thread.

\* the handler reaches run_in_executor: the tool is known, the request has
\* arguments and the identifier argument is truthy
Offloads(request) ==
    /\ request.name \in {"download_patent", "download_patents", "get_patent_info"}
    /\ request.arguments.present
    /\ IF request.name = "download_patents"
       THEN request.arguments.patent_numbers # <<>>
       ELSE Truthy(request.arguments.patent_number)

\* one tool call.  pc is "new", "queued" (handed to the pool), "running" (in
\* the pool thread), "in_get" (inside session.get), "finished" (the pool
\* thread is done) or "returned" (the handler returned its result).  item
\* is the position in patent_numbers the thread works on (1 for a single
\* call) and stage what it does next there: "call" (enter download_patent or
\* get_patent_info), "mkdir", "page", "pdf", "open", "write", "info", or
\* "done" when the offloaded call has returned or raised.  Inside
\* Path.mkdir, pending is the stack of os.mkdir calls still to make, each
\* on the first n parts of the path and with its parents flag, made the
\* directories the call has created and failAt the number of them after
\* which the filesystem refuses (-1 before the first os.mkdir).  outcome is
\* what the offloaded call gave ("True", "False", "returned" or the error
\* raised) and results the dict of a batch; raise, isError and calls are
\* what the handler ends with
ServerTask(request, env, pc) ==
    [request |-> request, env |-> env, pc |-> pc, item |-> 1, stage |-> "call",
     pending |-> <<>>, made |-> <<>>, failAt |-> -1,
     outcome |-> "none", results |-> <<>>,
     raise |-> "none", isError |-> FALSE, calls |-> <<>>]

\* the identifier the offloaded call works on, and what its requests meet
ItemNumber(task) ==
    IF task.request.name = "download_patents"
    THEN task.request.arguments.patent_numbers[task.item]
    ELSE task.request.arguments.patent_number
ItemEnv(task) == task.env[task.item]

\* output_path / f"{patent_number}.pdf"
OutputFile(task) ==
    PathJoin(PathOf(task.request.arguments.output_dir.val),
             ItemNumber(task).val \o <<".", "p", "d", "f">>)

\* open(output_file, "wb") creates the file or truncates it
Truncated(key, fs) ==
    [f \in DOMAIN fs \cup {key} |-> IF f = key THEN <<>> ELSE fs[f]]

\* f.write on a descriptor at offset 0: the bytes replace the start of the
\* file, what lies beyond them stays
Overwritten(key, data, fs) ==
    [f \in DOMAIN fs \cup {key} |->
        IF f # key THEN fs[f]
        ELSE IF f \in DOMAIN fs /\ Len(fs[f]) > Len(data)
        THEN data \o SubSeq(fs[f], Len(data) + 1, Len(fs[f]))
        ELSE data]

\* download_patent or get_patent_info ends with outcome: a single call is
\* done, the loop of download_patents records the flag and goes on
ItemDone(task, outcome) ==
    IF task.request.name # "download_patents"
    THEN [task EXCEPT !.stage = "done", !.outcome = outcome]
    ELSE IF IsError(outcome) /\ ~download_patents_catches(outcome)
    THEN [task EXCEPT !.stage = "done", !.outcome = outcome]
    ELSE IF task.item < Len(task.request.arguments.patent_numbers)
    THEN [task EXCEPT !.results = DictSet(task.results, ItemNumber(task),
                                          download_patents_flag(outcome)),
                      !.item = task.item + 1, !.stage = "call"]
    ELSE [task EXCEPT !.results = DictSet(task.results, ItemNumber(task),
                                          download_patents_flag(outcome)),
                      !.stage = "done", !.outcome = "returned"]

\* the thread enters get_patent_info or download_patent: the identifier is
\* validated and output_dir made a Path before any I/O
CallStep(task) ==
    LET Enter(v) ==
            IF task.request.name = "get_patent_info"
            THEN IF v # "ok" THEN ItemDone(task, get_patent_info_except(v))
                 ELSE [task EXCEPT !.stage = "info"]
            ELSE IF v # "ok" THEN ItemDone(task, download_patent_except(v))
            ELSE IF task.request.arguments.output_dir.type # "str"
            THEN ItemDone(task, download_patent_except("TypeError"))
            ELSE [task EXCEPT
                     !.stage = "mkdir",
                     !.pending =
                         << [n |-> Len(PathOf(task.request.arguments.output_dir.val).parts),
                             parents |-> TRUE] >>]
    IN Enter(_validate_patent_number(ItemNumber(task)))

\* the next os.mkdir of output_path.mkdir(parents=True, exist_ok=True), on
\* the directories and files as they are when it runs.  On
\* FileNotFoundError a call with parents=True goes on with its parent and
\* then with itself, parents=False; any other OSError is passed over when
\* the path is a directory (nothing is ever removed or renamed, so is_dir
\* answers as it would have at the os.mkdir).  The first os.mkdir settles how far the
\* filesystem of env lets the call get, as mkdir does: [task, dirs, files]
MkdirStep(task, ds, fs) ==
    LET path == PathOf(task.request.arguments.output_dir.val)
        frame == Head(task.pending)
        Leave(t2) == [t2 EXCEPT !.pending = <<>>, !.made = <<>>, !.failAt = -1]
        Raise(e, ds2) ==
            [task |-> Leave(ItemDone(task, download_patent_except(e))),
             dirs |-> ds2, files |-> fs]
        Pop(r, failAt) ==
            IF Tail(task.pending) = <<>>
            THEN [task |-> Leave([task EXCEPT !.stage = "page"]),
                  dirs |-> r.dirs, files |-> fs]
            ELSE [task |-> [task EXCEPT !.pending = Tail(task.pending),
                                        !.made = r.made, !.failAt = failAt],
                  dirs |-> r.dirs, files |-> fs]
        After(r, failAt) ==
            IF r.raise = "none" THEN Pop(r, failAt)
            ELSE IF r.raise = "FileNotFoundError"
            THEN IF ~frame.parents \/ frame.n = 0
                 THEN Raise(r.raise, r.dirs)
                 ELSE [task |-> [task EXCEPT
                                    !.pending = << [n |-> frame.n - 1, parents |-> TRUE],
                                                   [n |-> frame.n, parents |-> FALSE] >>
                                                \o Tail(task.pending),
                                    !.failAt = failAt],
                       dirs |-> r.dirs, files |-> fs]
            ELSE IF Walk(PathStart(path), SubSeq(path.parts, 1, frame.n), r.dirs).ok
            THEN Pop(r, failAt)
            ELSE Raise(r.raise, r.dirs)
        Make(failAt) ==
            After(os_mkdir(PathStart(path), SubSeq(path.parts, 1, frame.n),
                           ItemEnv(task).mkdir, failAt, task.made, ds, fs),
                  failAt)
        Settle(n) ==
            IF ItemEnv(task).made = 0 \/ n <= 1
            THEN Raise(ItemEnv(task).mkdir, ds)
            ELSE Make(IF ItemEnv(task).made < n - 1 THEN ItemEnv(task).made ELSE n - 1)
    IN IF task.failAt # -1 THEN Make(task.failAt)
       ELSE IF ItemEnv(task).mkdir = "ok" THEN Make(0)
       ELSE Settle(Len(PathMkdir(PathStart(path), path.parts, "ok", 0, <<>>, ds, fs).made))

\* the thread's next filesystem operation, on the directories and files as
\* they are when it runs: [task, dirs, files]
FsStep(task, ds, fs) ==
    LET Open(k, openErr) ==
            IF openErr # "none"
            THEN [task |-> ItemDone(task, "False"), dirs |-> ds, files |-> fs]
            ELSE [task |-> [task EXCEPT !.stage = "write"], dirs |-> ds,
                  files |-> Truncated(k.key, fs)]
        Write(k) ==
            [task |-> ItemDone(task, IF WriteError(ItemEnv(task)) = "none"
                                     THEN "True" ELSE "False"),
             dirs |-> ds,
             files |-> Overwritten(k.key, Written(ItemEnv(task).body, ItemEnv(task)), fs)]
    IN CASE task.stage = "mkdir" -> MkdirStep(task, ds, fs)
         [] task.stage = "open" ->
                Open(FileKey(OutputFile(task), ds),
                     OpenError(FileKey(OutputFile(task), ds), ItemEnv(task), ds, fs))
         [] task.stage = "write" ->
                Write(FileKey(OutputFile(task), ds))

\* the thread's session.get returns or raises
GetStep(task) ==
    LET Page(link) ==
            IF link.raise # "none"
            THEN ItemDone(task, download_patent_except(link.raise))
            ELSE IF ~Truthy(link.value)
            THEN ItemDone(task, download_patent_except("PatentNotFoundError"))
            ELSE [task EXCEPT !.stage = "pdf"]
        Pdf(data) ==
            IF data.raise # "none" THEN ItemDone(task, "False")
            ELSE [task EXCEPT !.stage = "open"]
        Info(r) == ItemDone(task, IF r.raise = "none" THEN "returned" ELSE r.raise)
    IN CASE task.stage = "page" ->
                Page(_retrieve_pdf_link(ItemNumber(task), PatentUrl(ItemNumber(task)),
                                        ItemEnv(task)))
         [] task.stage = "pdf" ->
                Pdf(_download_pdf_data(
                        _retrieve_pdf_link(ItemNumber(task), PatentUrl(ItemNumber(task)),
                                           ItemEnv(task)).value,
                        ItemNumber(task), PatentUrl(ItemNumber(task)), ItemEnv(task)))
         [] task.stage = "info" ->
                Info(get_patent_info(ItemNumber(task), ItemEnv(task)))

\* the handler after its await, with what the offloaded call gave
_handle_call_tool_resume(task, ds, fs) ==
    _handle_call_tool_except(
        CASE task.request.name = "download_patent" ->
                 _handle_download_patent_resume(task.outcome, ds, fs)
          [] task.request.name = "download_patents" ->
                 IF task.outcome = "returned"
                 THEN _handle_download_patents_resume(task.results, ds, fs)
                 ELSE handler_except(task.outcome,
                                     <<McpCall("download_patents", task.outcome, <<>>)>>,
                                     ds, fs)
          [] task.request.name = "get_patent_info" ->
                 _handle_get_patent_info_resume(task.outcome, ds, fs))

----------------------------------------------------------------------------
(* Inputs of the concurrent tool-call check *)

ServerArguments(number, numbers, dir) ==
    [present |-> TRUE, patent_number |-> number,
     patent_numbers |-> numbers, output_dir |-> Str(dir)]

ServerOut == <<"o", "u", "t">>

\* a download into out, one into a directory named like the file the first
\* one writes, an invalid and a missing identifier, an info call and a batch
ServerRequests ==
    { [name |-> "download_patent",
       arguments |-> ServerArguments(Str(<<"U", "S", "1">>), <<>>, ServerOut)],
      [name |-> "download_patent",
       arguments |-> ServerArguments(Str(<<"E", "P", "2">>), <<>>, <<"o", "u", "t", "/", "U", "S", "1", ".", "p", "d", "f">>)],
      [name |-> "download_patent",
       arguments |-> ServerArguments(Str(<<"A", "B">>), <<>>, ServerOut)],
      [name |-> "download_patent", arguments |-> ServerArguments(NoneValue, <<>>, ServerOut)],
      [name |-> "get_patent_info",
       arguments |-> ServerArguments(Str(<<"U", "S", "1">>), <<>>, ServerOut)],
      [name |-> "download_patents",
       arguments |-> ServerArguments(NoneValue, <<Str(<<"U", "S", "1">>), Str(<<"E", "P", "2">>)>>, ServerOut)] }

\* what each download_patent or get_patent_info call of a tool call meets:
\* both requests succeed, with the body of McpEnvs or a shorter one, or the
\* page request fails
ServerEnvSeqs ==
    { <<e, e>> : e \in {x \in McpEnvs : x.pdf = "ok" /\ x.write = "ok"}
                       \cup {[x EXCEPT !.body = <<"%", "P", "D", "F">>] :
                                x \in {y \in McpEnvs : y.page = "ok" /\ y.pdf = "ok"
                                                           /\ y.write = "ok"}} }

\* the tool calls the server is given: every request with both of its
\* requests succeeding on the body of McpEnvs, and the download of US1 into
\* out, which another call may write at the same time, also with the
\* shorter body and with a failing page request
ServerCalls ==
    { c \in [request : ServerRequests, env : ServerEnvSeqs] :
        (c.env[1].body # <<"%", "P", "D", "F", "-", "1">> \/ c.env[1].page # "ok") =>
            /\ c.request.name = "download_patent"
            /\ c.request.arguments.patent_number = Str(<<"U", "S", "1">>)
            /\ c.request.arguments.output_dir = Str(ServerOut) }

----------------------------------------------------------------------------
(* cli.download_command *)

\* one call made on the downloader object: the method, its positional
\* arguments (npos of them: the identifiers, then the directory), the names
\* of its keyword arguments and what it gave back
CliCall(method, ids, dir, npos, kwargs, returned) ==
    [method |-> method, ids |-> ids, output_dir |-> dir, npos |-> npos,
     kwargs |-> kwargs, returned |-> returned]

\* what a call gives back: the error raised ("none" if it returned), the
\* bool download_patent returns, the items of the dict a batch call returns
Returned(raise, value, items) == [raise |-> raise, value |-> value, items |-> items]

\* `return 0 if not failed else 1`
ExitCode(items) == IF failed(items) = <<>> THEN 0 ELSE 1

\* the three except clauses of download_command all return 1
download_command_except(e) == 1

\* the checks main() makes before it calls download_command
UsageError(args) ==
    \/ Truthy(args.file) /\ args.patent_numbers # <<>>
    \/ ~Truthy(args.file) /\ args.patent_numbers = <<>>

\* calling a method with a keyword it does not declare
BindError(method, kwargs) ==
    IF method = "download_patents" /\ "progress_callback" \in kwargs
    THEN "TypeError" ELSE "none"

\* looking a method up on the real PatentDownloader
HasMethod(method) ==
    method \in {"download_patent_data", "download_patent", "download_patents",
                "get_patent_info"}

----------------------------------------------------------------------------
(* Inputs of the command-line check *)

CliNumbers == { Str(<<"U", "S", "1">>), Str(<<"E", "P", "2">>), Str(<<"A", "B">>) }

CliEnvs ==
    [ mkdir : {"ok"},
      made : {0},
      partial : {3},
      page : {"ok", "HTTPError"},
      html : {DownloadLinkPage},
      pdf : {"ok", "ConnectionError"},
      body : { <<"%", "P", "D", "F", "-", "1">> },
      ctype : { <<"a", "p", "p", "l", "i", "c", "a", "t", "i", "o", "n", "/", "p", "d", "f">> },
      write : {"ok"} ]

\* dict(zip(ids, flags)): one entry per key, holding the key's last flag
RECURSIVE DictOf(_, _)
DictOf(ids, flags) ==
    IF ids = <<>>
    THEN <<>>
    ELSE DictSet(DictOf(Front(ids), Front(flags)), ids[Len(ids)], flags[Len(ids)])

\* the dicts a mocked batch method may be set up to return for ids
MockDicts(ids) ==
    { DictOf(ids, flags) : flags \in [1..Len(ids) -> BOOLEAN] }

\* what a mocked method may be set up to do
MockBoolReturns ==
    {Returned("none", b, <<>>) : b \in BOOLEAN} \cup {Returned("Exception", FALSE, <<>>)}
MockDictReturns(ids) ==
    {Returned("none", FALSE, d) : d \in MockDicts(ids)}
        \cup {Returned("Exception", FALSE, <<>>)}

CliArgSets ==
    [ file : {NoneValue, Str(<<"i", "d", "s", ".", "t", "x", "t">>)},
      patent_numbers : SeqsUpTo(CliNumbers, MaxCliIds),
      output_dir : {Str(<<"o", "u", "t">>)} ]

\* the identifiers the run is asked to download
Requested(args, world) ==
    IF Truthy(args.file) THEN world.file_ids ELSE args.patent_numbers

CliWorlds(args) ==
    IF UsageError(args) THEN {[file_ids |-> <<>>, net |-> <<>>]}
    ELSE UNION { { [file_ids |-> f, net |-> n] :
                     n \in [1..Len(Requested(args, [file_ids |-> f, net |-> <<>>])) -> CliEnvs] } :
                 f \in IF Truthy(args.file)
                       THEN SeqsUpTo(CliNumbers, MaxCliIds) \ {<<>>}
                       ELSE {<<>>} }

----------------------------------------------------------------------------
(* Specifications *)

IdleValidate == vInput = NoneValue /\ vResult = "idle"
IdleLink ==
    /\ lContent = <<>>
    /\ lNumber = NoneValue
    /\ lResult = [state |-> "idle", value |-> NoneValue]
IdleBatch ==
    /\ dNumber = NoneValue
    /\ patent_numbers = <<>>
    /\ output_dir = Str(<<".">>)
    /\ callback = FALSE
    /\ pos = 0
    /\ results = <<>>
    /\ batch = "idle"
    /\ calls = <<>>
    /\ cbCalls = <<>>
    /\ dirs = BaseDirs
    /\ files = NoFiles
IdleParse ==
    /\ pContent = <<>>
    /\ pResult = [state |-> "idle", value |-> NoInfo]
IdleSingle ==
    /\ sOp = "none"
    /\ sNumber = NoneValue
    /\ sResult = [state |-> "idle", outcome |-> "none", io |-> <<>>]
IdleCli ==
    /\ cliArgs = [file |-> NoneValue, patent_numbers |-> <<>>,
                  output_dir |-> Str(<<".">>)]
    /\ cliMock = FALSE
    /\ cliWorld = [file_ids |-> <<>>, net |-> <<>>]
    /\ cliCalls = <<>>
    /\ cliExit = [state |-> "idle", code |-> 0]
IdleServer ==
    /\ tasks = <<>>
    /\ session = {}
IdleMcp ==
    /\ mRequest = [name |-> "none", arguments |-> <<>>]
    /\ mCalls = <<>>
    /\ mResult = [state |-> "idle", isError |-> FALSE]
    /\ IdleServer
IdleOther == IdleParse /\ IdleSingle /\ IdleCli /\ IdleMcp

\* --- _validate_patent_number on every identifier up to MaxIdLen ---
InitValidate ==
    /\ vInput \in ValidateInputs
    /\ vResult = "pending"
    /\ IdleLink
    /\ IdleBatch
    /\ IdleOther

Validate ==
    /\ vResult = "pending"
    /\ vResult' = _validate_patent_number(vInput)
    /\ UNCHANGED <<vInput, vLink, vBatch, vOther>>

NextValidate == Validate

SpecValidate == InitValidate /\ [][NextValidate]_vars

\* --- _find_pdf_link on every page of up to MaxAnchors anchors ---
InitLink ==
    /\ lContent \in LinkPages
    /\ lNumber \in LinkNumbers
    /\ lResult = [state |-> "pending", value |-> NoneValue]
    /\ IdleValidate
    /\ IdleBatch
    /\ IdleOther

FindPdfLink ==
    /\ lResult.state = "pending"
    /\ lResult' = [state |-> "returned", value |-> _find_pdf_link(lContent, lNumber)]
    /\ UNCHANGED <<lContent, lNumber, vValidate, vBatch, vOther>>

NextLink == FindPdfLink

SpecLink == InitLink /\ [][NextLink]_vars

\* --- one download_patent call ---
InitDownload ==
    /\ dNumber \in DownloadNumbers
    /\ output_dir \in DownloadDirs
    /\ \E f \in InitialFs : dirs = f.dirs /\ files = f.files
    /\ patent_numbers = <<>>
    /\ callback = FALSE
    /\ pos = 0
    /\ results = <<>>
    /\ batch = "single"
    /\ calls = <<>>
    /\ cbCalls = <<>>
    /\ IdleValidate
    /\ IdleLink
    /\ IdleOther

DownloadPatent(env) ==
    /\ batch = "single"
    /\ calls = <<>>
    /\ \E r \in {download_patent(dNumber, output_dir, env, dirs, files)} :
          /\ calls' = <<r.call>>
          /\ dirs' = r.dirs
          /\ files' = r.files
    /\ UNCHANGED <<dNumber, patent_numbers, output_dir, callback, pos, results,
                   batch, cbCalls, vValidate, vLink, vOther>>

NextDownload == \E env \in SingleEnvs : DownloadPatent(env)

SpecDownload == InitDownload /\ [][NextDownload]_vars

\* --- download_patents ---
Init ==
    /\ patent_numbers \in SeqsUpTo(BatchNumbers, MaxBatch)
    /\ output_dir = Str(<<"o", "u", "t">>)
    /\ callback \in BOOLEAN
    /\ dNumber = NoneValue
    /\ pos = 0
    /\ results = <<>>
    /\ batch = "idle"
    /\ calls = <<>>
    /\ cbCalls = <<>>
    /\ dirs = BaseDirs
    /\ files = NoFiles
    /\ IdleValidate
    /\ IdleLink
    /\ IdleOther

\* the call binds its arguments: download_patents has no progress_callback
\* parameter, so a call that passes one raises TypeError before the body runs
DownloadPatentsCall ==
    /\ batch = "idle"
    /\ batch' = IF callback THEN "TypeError"
                ELSE IF patent_numbers = <<>> THEN "returned"
                ELSE "running"
    /\ results' = <<>>
    /\ UNCHANGED <<dNumber, patent_numbers, output_dir, callback, pos, calls,
                   cbCalls, dirs, files, vValidate, vLink,
                   vOther>>

\* one iteration of the loop, and `return results` after the last one
DownloadPatentsItem(env) ==
    /\ batch = "running"
    /\ pos < Len(patent_numbers)
    /\ \E r \in {download_patent(patent_numbers[pos + 1], output_dir, env, dirs, files)} :
          \E escapes \in {IsError(r.call.outcome)
                            /\ ~download_patents_catches(r.call.outcome)} :
             /\ calls' = Append(calls, r.call)
             /\ dirs' = r.dirs
             /\ files' = r.files
             /\ results' = IF escapes THEN results
                           ELSE DictSet(results, patent_numbers[pos + 1],
                                        download_patents_flag(r.call.outcome))
             /\ batch' = IF escapes THEN r.call.outcome
                         ELSE IF pos + 1 = Len(patent_numbers) THEN "returned"
                         ELSE "running"
    /\ pos' = pos + 1
    /\ UNCHANGED <<dNumber, patent_numbers, output_dir, callback, cbCalls,
                   vValidate, vLink, vOther>>

Next == DownloadPatentsCall \/ \E env \in BatchEnvs : DownloadPatentsItem(env)

Spec == Init /\ [][Next]_vars

\* --- _parse_patent_info on every page of up to MaxElements elements ---
InitParse ==
    /\ pContent \in InfoPages
    /\ pResult = [state |-> "pending", value |-> NoInfo]
    /\ IdleValidate
    /\ IdleLink
    /\ IdleBatch
    /\ IdleSingle
    /\ IdleCli
    /\ IdleMcp

ParsePatentInfo ==
    /\ pResult.state = "pending"
    /\ pResult' = [state |-> "returned",
                   value |-> _parse_patent_info(pContent, ParseNumber,
                                                PatentUrl(ParseNumber))]
    /\ UNCHANGED <<pContent, vValidate, vLink, vBatch, vSingle, vCli, vMcp>>

NextParse == ParsePatentInfo

SpecParse == InitParse /\ [][NextParse]_vars

\* --- cli.main's argument check and download_command ---
InitCli ==
    /\ cliArgs \in CliArgSets
    /\ cliMock \in BOOLEAN
    /\ cliWorld \in CliWorlds(cliArgs)
    /\ cliCalls = <<>>
    /\ cliExit = [state |-> "pending", code |-> 0]
    /\ IdleValidate
    /\ IdleLink
    /\ IdleBatch
    /\ IdleParse
    /\ IdleSingle
    /\ IdleMcp

\* main(): `Cannot use both ...` / `Must provide either ...`
CliUsageError ==
    /\ cliExit.state = "pending"
    /\ UsageError(cliArgs)
    /\ cliExit' = [state |-> "returned", code |-> 1]
    /\ UNCHANGED <<cliArgs, cliMock, cliWorld, cliCalls, vValidate, vLink,
                   vBatch, vParse, vSingle, vMcp>>

\* download_command, `if args.file:`
CliFromFile ==
    /\ cliExit.state = "pending"
    /\ ~UsageError(cliArgs)
    /\ Truthy(cliArgs.file)
    /\ IF cliMock
       THEN \E ret \in MockDictReturns(cliWorld.file_ids) :
               /\ cliCalls' = <<CliCall("download_patents_from_file", <<>>,
                                        cliArgs.output_dir, 3,
                                        {"progress_callback"}, ret)>>
               /\ cliExit' = [state |-> "returned",
                              code |-> IF ret.raise # "none"
                                       THEN download_command_except(ret.raise)
                                       ELSE ExitCode(ret.items)]
       ELSE /\ ~HasMethod("download_patents_from_file")
            /\ cliCalls' = cliCalls
            /\ cliExit' = [state |-> "returned",
                           code |-> download_command_except("AttributeError")]
    /\ UNCHANGED <<cliArgs, cliMock, cliWorld, vValidate, vLink, vBatch, vParse,
                   vSingle, vMcp>>

\* download_command, `if len(patent_numbers) == 1:`
CliSingle ==
    /\ cliExit.state = "pending"
    /\ ~UsageError(cliArgs)
    /\ ~Truthy(cliArgs.file)
    /\ Len(cliArgs.patent_numbers) = 1
    /\ IF cliMock
       THEN \E ret \in MockBoolReturns :
               /\ cliCalls' = <<CliCall("download_patent", cliArgs.patent_numbers,
                                        cliArgs.output_dir, 2, {}, ret)>>
               /\ cliExit' = [state |-> "returned",
                              code |-> IF ret.raise # "none"
                                       THEN download_command_except(ret.raise)
                                       ELSE IF ret.value THEN 0 ELSE 1]
               /\ UNCHANGED <<dirs, files>>
       ELSE \E r \in {download_patent(cliArgs.patent_numbers[1], cliArgs.output_dir,
                                      cliWorld.net[1], dirs, files)} :
               /\ cliCalls' = <<CliCall("download_patent", cliArgs.patent_numbers,
                                        cliArgs.output_dir, 2, {},
                                        Returned(IF IsError(r.call.outcome)
                                                 THEN r.call.outcome ELSE "none",
                                                 r.call.outcome = "True", <<>>))>>
               /\ cliExit' = [state |-> "returned",
                              code |-> IF IsError(r.call.outcome)
                                       THEN download_command_except(r.call.outcome)
                                       ELSE IF r.call.outcome = "True" THEN 0 ELSE 1]
               /\ dirs' = r.dirs
               /\ files' = r.files
    /\ UNCHANGED <<cliArgs, cliMock, cliWorld, dNumber, patent_numbers, output_dir,
                   callback, pos, results, batch, calls, cbCalls, vValidate,
                   vLink, vParse, vSingle, vMcp>>

\* download_command, the `else` of `if len(patent_numbers) == 1:`
CliMultiple ==
    /\ cliExit.state = "pending"
    /\ ~UsageError(cliArgs)
    /\ ~Truthy(cliArgs.file)
    /\ Len(cliArgs.patent_numbers) # 1
    /\ IF cliMock
       THEN \E ret \in MockDictReturns(cliArgs.patent_numbers) :
               /\ cliCalls' = <<CliCall("download_patents", cliArgs.patent_numbers,
                                        cliArgs.output_dir, 2,
                                        {"progress_callback"}, ret)>>
               /\ cliExit' = [state |-> "returned",
                              code |-> IF ret.raise # "none"
                                       THEN download_command_except(ret.raise)
                                       ELSE ExitCode(ret.items)]
       ELSE \E e \in {BindError("download_patents", {"progress_callback"})} :
               /\ e # "none"
               /\ cliCalls' = <<CliCall("download_patents", cliArgs.patent_numbers,
                                        cliArgs.output_dir, 2,
                                        {"progress_callback"},
                                        Returned(e, FALSE, <<>>))>>
               /\ cliExit' = [state |-> "returned",
                              code |-> download_command_except(e)]
    /\ UNCHANGED <<cliArgs, cliMock, cliWorld, vValidate, vLink, vBatch, vParse,
                   vSingle, vMcp>>

NextCli == CliUsageError \/ CliFromFile \/ CliSingle \/ CliMultiple

SpecCli == InitCli /\ [][NextCli]_vars

\* --- the state one tool call of the MCP server starts in ---
InitMcp ==
    /\ mRequest \in McpRequests
    /\ mCalls = <<>>
    /\ mResult = [state |-> "pending", isError |-> FALSE]
    /\ IdleServer
    /\ dirs = BaseDirs
    /\ files = NoFiles
    /\ IdleValidate
    /\ IdleLink
    /\ IdleBatch
    /\ IdleParse
    /\ IdleSingle
    /\ IdleCli

\* --- one call of a single-item operation of PatentDownloader ---
SingleOps == {"download_patent", "download_patent_data", "get_patent_info"}

SingleNumbers ==
    DownloadNumbers \cup NonStrings \cup { Str(<<" ", "A", "\t">>), Str(<<"E", "P", "2">>) }

SingleOpEnvs ==
    [ mkdir : {"ok"},
      made : {0},
      partial : {3},
      page : {"ok", "ConnectionError", "ValueError"},
      html : {NoLinkPage, DownloadLinkPage},
      elems : { <<>>, << Element("span", "title", <<" ", "T", " ">>) >> },
      pdf : {"ok", "HTTPError"},
      body : Bodies,
      ctype : { <<"a", "p", "p", "l", "i", "c", "a", "t", "i", "o", "n", "/", "p", "d", "f">> },
      write : {"ok", "write_fails"} ]

InitSingle ==
    /\ sOp \in SingleOps
    /\ sNumber \in SingleNumbers
    /\ sResult = [state |-> "pending", outcome |-> "none", io |-> <<>>]
    /\ dirs = BaseDirs
    /\ files = NoFiles
    /\ IdleValidate
    /\ IdleLink
    /\ IdleBatch
    /\ IdleParse
    /\ IdleCli
    /\ IdleMcp

SingleDownloadPatent(env) ==
    /\ sOp = "download_patent"
    /\ sResult.state = "pending"
    /\ \E r \in {download_patent(sNumber, Str(<<"o", "u", "t">>), env, dirs, files)} :
          /\ sResult' = [state |-> "done", outcome |-> r.call.outcome, io |-> r.call.io]
          /\ dirs' = r.dirs
          /\ files' = r.files
    /\ UNCHANGED <<sOp, sNumber, dNumber, patent_numbers, output_dir, callback, pos,
                   results, batch, calls, cbCalls, vValidate, vLink, vParse,
                   vCli, vMcp>>

SingleDownloadPatentData(env) ==
    /\ sOp = "download_patent_data"
    /\ sResult.state = "pending"
    /\ \E r \in {download_patent_data(sNumber, env)} :
          sResult' = [state |-> "done",
                      outcome |-> IF r.raise = "none" THEN "returned" ELSE r.raise,
                      io |-> r.io]
    /\ UNCHANGED <<sOp, sNumber, vValidate, vLink, vBatch, vParse, vCli, vMcp>>

SingleGetPatentInfo(env) ==
    /\ sOp = "get_patent_info"
    /\ sResult.state = "pending"
    /\ \E r \in {get_patent_info(sNumber, env)} :
          sResult' = [state |-> "done",
                      outcome |-> IF r.raise = "none" THEN "returned" ELSE r.raise,
                      io |-> r.io]
    /\ UNCHANGED <<sOp, sNumber, vValidate, vLink, vBatch, vParse, vCli, vMcp>>

NextSingle ==
    \E env \in SingleOpEnvs :
        \/ SingleDownloadPatent(env)
        \/ SingleDownloadPatentData(env)
        \/ SingleGetPatentInfo(env)

SpecSingle == InitSingle /\ [][NextSingle]_vars

\* --- tool calls handled concurrently by one server ---
InitServer ==
    /\ tasks \in [1..MaxTasks ->
                    {ServerTask(c.request, c.env, "new") : c \in ServerCalls}]
    /\ session = {}
    /\ mRequest = [name |-> "none", arguments |-> <<>>]
    /\ mCalls = <<>>
    /\ mResult = [state |-> "idle", isError |-> FALSE]
    /\ IdleBatch
    /\ IdleValidate
    /\ IdleLink
    /\ IdleParse
    /\ IdleSingle
    /\ IdleCli

\* the handler coroutine runs up to its await: it returns an error result
\* at once, or hands the call to the thread pool
HandlerStart(t) ==
    /\ t \in DOMAIN tasks
    /\ tasks[t].pc = "new"
    /\ \E h \in {_handle_call_tool(tasks[t].request, tasks[t].env, dirs, files)} :
          tasks' = [tasks EXCEPT ![t] =
                       IF Offloads(tasks[t].request)
                       THEN [tasks[t] EXCEPT !.pc = "queued"]
                       ELSE [tasks[t] EXCEPT !.pc = "returned", !.raise = h.raise,
                                             !.isError = h.isError, !.calls = h.calls]]
    /\ UNCHANGED <<session, dirs, files, vServerRest>>

\* the pool thread enters download_patent or get_patent_info
WorkerCall(t) ==
    /\ t \in DOMAIN tasks
    /\ tasks[t].pc \in {"queued", "running"}
    /\ tasks[t].stage = "call"
    /\ tasks' = [tasks EXCEPT ![t] = [CallStep(tasks[t]) EXCEPT !.pc = "running"]]
    /\ UNCHANGED <<session, dirs, files, vServerRest>>

\* the pool thread performs the call's next filesystem operation: one
\* os.mkdir, the open or the write
WorkerStep(t) ==
    /\ t \in DOMAIN tasks
    /\ tasks[t].pc \in {"queued", "running"}
    /\ tasks[t].stage \in {"mkdir", "open", "write"}
    /\ \E r \in {FsStep(tasks[t], dirs, files)} :
          /\ dirs' = r.dirs
          /\ files' = r.files
          /\ tasks' = [tasks EXCEPT ![t] = [r.task EXCEPT !.pc = "running"]]
    /\ UNCHANGED <<session, vServerRest>>

\* the pool thread enters self.session.get
SessionGetBegin(t) ==
    /\ t \in DOMAIN tasks
    /\ tasks[t].pc \in {"queued", "running"}
    /\ tasks[t].stage \in {"page", "pdf", "info"}
    /\ session' = session \cup {t}
    /\ tasks' = [tasks EXCEPT ![t].pc = "in_get"]
    /\ UNCHANGED <<dirs, files, vServerRest>>

\* session.get returns or raises in the pool thread
SessionGetEnd(t) ==
    /\ t \in DOMAIN tasks
    /\ tasks[t].pc = "in_get"
    /\ session' = session \ {t}
    /\ tasks' = [tasks EXCEPT ![t] = [GetStep(tasks[t]) EXCEPT !.pc = "running"]]
    /\ UNCHANGED <<dirs, files, vServerRest>>

\* the offloaded call returns or raises in the pool thread
WorkerReturn(t) ==
    /\ t \in DOMAIN tasks
    /\ tasks[t].pc \in {"queued", "running"}
    /\ tasks[t].stage = "done"
    /\ tasks' = [tasks EXCEPT ![t].pc = "finished"]
    /\ UNCHANGED <<session, dirs, files, vServerRest>>

\* the event loop resumes the handler, which returns its CallToolResult
HandlerResume(t) ==
    /\ t \in DOMAIN tasks
    /\ tasks[t].pc = "finished"
    /\ \E h \in {_handle_call_tool_resume(tasks[t], dirs, files)} :
          tasks' = [tasks EXCEPT ![t].pc = "returned", ![t].raise = h.raise,
                                 ![t].isError = h.isError, ![t].calls = h.calls]
    /\ UNCHANGED <<session, dirs, files, vServerRest>>

NextServer ==
    \E t \in 1..MaxTasks :
        \/ HandlerStart(t)
        \/ WorkerCall(t)
        \/ WorkerStep(t)
        \/ SessionGetBegin(t)
        \/ SessionGetEnd(t)
        \/ WorkerReturn(t)
        \/ HandlerResume(t)

SpecServer == InitServer /\ [][NextServer]_vars

\* --- one tool call handled by the MCP server, step by step ---

\* _handle_call_tool runs up to its await: an unknown tool or a missing
\* argument gives the error result at once, any other call is handed to the
\* thread pool
McpStart(env) ==
    /\ mResult.state = "pending"
    /\ tasks = <<>>
    /\ Len(env) = McpNeeds(mRequest)
    /\ \E h \in {_handle_call_tool(mRequest, env, dirs, files)} :
          IF Offloads(mRequest)
          THEN /\ tasks' = <<ServerTask(mRequest, env, "queued")>>
               /\ UNCHANGED <<mCalls, mResult>>
          ELSE /\ mResult' = [state |-> IF h.raise = "none" THEN "returned" ELSE "raised",
                              isError |-> h.isError]
               /\ mCalls' = h.calls
               /\ UNCHANGED tasks
    /\ UNCHANGED <<mRequest, session, dirs, files, dNumber, patent_numbers,
                   output_dir, callback, pos, results, batch, calls, cbCalls,
                   vValidate, vLink, vParse, vSingle, vCli>>

\* the await of run_in_executor completes: the handler builds its result
\* from what the downloader returned or raised
McpResume ==
    /\ tasks # <<>>
    /\ tasks[1].pc = "finished"
    /\ mResult.state = "pending"
    /\ \E h \in {_handle_call_tool_resume(tasks[1], dirs, files)} :
          /\ mResult' = [state |-> IF h.raise = "none" THEN "returned" ELSE "raised",
                         isError |-> h.isError]
          /\ mCalls' = h.calls
          /\ tasks' = [tasks EXCEPT ![1].pc = "returned", ![1].raise = h.raise,
                                    ![1].isError = h.isError, ![1].calls = h.calls]
    /\ UNCHANGED <<mRequest, session, dirs, files, dNumber, patent_numbers,
                   output_dir, callback, pos, results, batch, calls, cbCalls,
                   vValidate, vLink, vParse, vSingle, vCli>>

NextMcp ==
    \/ \E env \in McpEnvSeqs : McpStart(env)
    \/ WorkerCall(1)
    \/ WorkerStep(1)
    \/ SessionGetBegin(1)
    \/ SessionGetEnd(1)
    \/ WorkerReturn(1)
    \/ McpResume

SpecMcp == InitMcp /\ [][NextMcp]_vars

----------------------------------------------------------------------------
(* Properties of _validate_patent_number (SpecValidate) *)

NonWhitespaceAt(s) == {i \in 1..Len(s) : s[i] \notin Whitespace}

\* the length of s between its first and its last non-whitespace character
TrimmedLen(s) ==
    IF NonWhitespaceAt(s) = {} THEN 0
    ELSE LET first == CHOOSE i \in NonWhitespaceAt(s) : \A j \in NonWhitespaceAt(s) : i <= j
             last == CHOOSE i \in NonWhitespaceAt(s) : \A j \in NonWhitespaceAt(s) : j <= i
         IN last - first + 1

Validated == vResult \in {"ok", "InvalidPatentNumberError"}

\* C8 as stated: validation succeeds for every string of length >= 3 and
\* raises InvalidPatentNumberError for every identifier that is empty, not a
\* string or of length < 3.
C8_SucceedsOnLength3 ==
    Validated =>
        /\ (vInput.type = "str" /\ Len(vInput.val) >= 3) => vResult = "ok"
        /\ (vInput.type # "str" \/ vInput.val = <<>> \/ Len(vInput.val) < 3)
              => vResult = "InvalidPatentNumberError"

\* C8 amended: validation succeeds for every string whose length is >= 3
\* once leading and trailing whitespace is trimmed, and raises
\* InvalidPatentNumberError for every identifier that is empty, not a string
\* or of length < 3.
C8_SucceedsOnTrimmedLength3 ==
    Validated =>
        /\ (vInput.type = "str" /\ TrimmedLen(vInput.val) >= 3) => vResult = "ok"
        /\ (vInput.type # "str" \/ vInput.val = <<>> \/ Len(vInput.val) < 3)
              => vResult = "InvalidPatentNumberError"

\* a string padded with whitespace was accepted
C8_Witness ==
    /\ vResult = "ok"
    /\ vInput.type = "str"
    /\ TrimmedLen(vInput.val) < Len(vInput.val)

\* C9: an identifier is accepted if and only if it is a string whose length
\* after trimming leading and trailing whitespace is at least 3; the
\* validation step changes nothing but its own result.
C9_AcceptedIffTrimmedLength3 ==
    [][vResult' # vResult =>
          /\ vResult' \in {"ok", "InvalidPatentNumberError"}
          /\ (vResult' = "ok") <=>
                (vInput.type = "str" /\ TrimmedLen(vInput.val) >= 3)
          /\ UNCHANGED <<vInput, vLink, vBatch, vOther>>]_vars

\* a string of length >= 3 was rejected because too little is left after
\* trimming
C9_Witness ==
    /\ vResult = "InvalidPatentNumberError"
    /\ vInput.type = "str"
    /\ Len(vInput.val) >= 3

----------------------------------------------------------------------------
(* Properties of _find_pdf_link (SpecLink) *)

Letters == {UpperCase[i] : i \in 1..26} \cup {LowerCase[i] : i \in 1..26}
Digits == {"0", "1", "2", "3", "4", "5", "6", "7", "8", "9"}

\* s begins with a URL scheme: a letter, then letters, digits, "+", "-" or
\* ".", then ":"
HasScheme(s) ==
    \E i \in 2..Len(s) :
        /\ s[i] = ":"
        /\ s[1] \in Letters
        /\ \A j \in 1..(i - 1) : s[j] \in Letters \cup Digits \cup {"+", "-", "."}

\* C10 as stated: for every page and identifier _find_pdf_link returns a
\* non-null, non-empty absolute URL (one that begins with a URL scheme).
C10_ReturnsAbsoluteUrl ==
    lResult.state = "returned" =>
        /\ lResult.value.type = "str"
        /\ lResult.value.val # <<>>
        /\ HasScheme(lResult.value.val)

----------------------------------------------------------------------------
(* Properties of download_patents (Spec) *)

Positions == 1..Len(patent_numbers)

Finished == batch \notin {"idle", "running"}

\* position i is the last one among the first n that names its identifier
LastAmong(i, n) == \A j \in (i + 1)..n : patent_numbers[j] # patent_numbers[i]

\* C1: a failing item never aborts the batch: no error leaves
\* download_patents, an item that raised or returned False is recorded as
\* False, the loop goes on to the remaining identifiers, and the call ends by
\* returning with every identifier attempted.
C1_FailingItemNeverAborts ==
    ~callback =>
        /\ batch \in {"idle", "running", "returned"}
        /\ batch = "running" => pos < Len(patent_numbers)
        /\ (pos >= 1 /\ calls[pos].outcome # "True") =>
              /\ patent_numbers[pos] \in DictKeys(results)
              /\ DictGet(results, patent_numbers[pos]) = FALSE
        /\ batch = "returned" =>
              \A i \in Positions :
                  \E j \in 1..Len(calls) : calls[j].patent_number = patent_numbers[i]

\* the batch returned although an item raised, and a later item succeeded
C1_Witness ==
    /\ ~callback
    /\ batch = "returned"
    /\ \E i \in 1..(Len(calls) - 1) :
           IsError(calls[i].outcome) /\ calls[i + 1].outcome = "True"

\* C2: the returned map has exactly one entry per distinct input identifier,
\* and an identifier's flag is True exactly when its download_patent call
\* (the last one, if the identifier is repeated) returned True.
C2_OneEntryPerIdentifier ==
    (batch = "returned" /\ ~callback) =>
        /\ DictKeys(results) = {patent_numbers[i] : i \in Positions}
        /\ Len(results) = Cardinality(DictKeys(results))
        /\ \A i \in Positions :
              LastAmong(i, Len(patent_numbers)) =>
                  DictGet(results, patent_numbers[i]) = (calls[i].outcome = "True")

\* a returned map with a True, a False from a False return and a False from
\* an error
C2_Witness ==
    /\ batch = "returned"
    /\ Len(results) = 3
    /\ \E i, j, k \in Positions :
           /\ calls[i].outcome = "True" /\ DictGet(results, patent_numbers[i])
           /\ calls[j].outcome = "False" /\ ~DictGet(results, patent_numbers[j])
           /\ IsError(calls[k].outcome) /\ ~DictGet(results, patent_numbers[k])

\* C3: download_patent is called once per list position, in input order, one
\* call after the other (duplicates included), and the flag recorded for an
\* identifier is the outcome of its last occurrence so far.
C3_SequentialInInputOrder ==
    /\ [](~callback =>
            /\ Len(calls) = pos
            /\ pos <= Len(patent_numbers)
            /\ batch = "returned" => pos = Len(patent_numbers)
            /\ \A i \in 1..pos :
                  /\ calls[i].patent_number = patent_numbers[i]
                  /\ calls[i].output_dir = output_dir
                  /\ LastAmong(i, pos) =>
                        DictGet(results, patent_numbers[i]) = (calls[i].outcome = "True"))
    /\ [][calls' # calls =>
            /\ Len(calls') = Len(calls) + 1
            /\ SubSeq(calls', 1, Len(calls)) = calls]_vars

\* an identifier was downloaded twice, first with success and then without,
\* and its flag is False
C3_Witness ==
    /\ batch = "returned"
    /\ \E i, j \in Positions :
           /\ i < j
           /\ patent_numbers[i] = patent_numbers[j]
           /\ LastAmong(j, Len(patent_numbers))
           /\ calls[i].outcome = "True"
           /\ calls[j].outcome # "True"
           /\ DictGet(results, patent_numbers[j]) = FALSE

\* C4 as stated: a call that passes a progress callback returns the result
\* map, having invoked the callback once per item with (completedCount,
\* total, identifier, success), completedCount running 1..total.
C4_CallbackInvokedPerItem ==
    (callback /\ Finished) =>
        /\ batch = "returned"
        /\ Len(calls) = Len(patent_numbers)
        /\ Len(cbCalls) = Len(patent_numbers)
        /\ \A i \in Positions :
              cbCalls[i] = [completed |-> i, total |-> Len(patent_numbers),
                            patent_number |-> patent_numbers[i],
                            success |-> (calls[i].outcome = "True")]

----------------------------------------------------------------------------
(* Properties of download_patent (SpecDownload) *)

Gets(c) == SelectSeq(c.io, LAMBDA e : e.op = "GET")

\* the page holds an anchor that one of the three strategies selects
HasDownloadAnchor(html) ==
    \E i \in 1..Len(html) :
        html[i].hasHref /\ (Strategy1(html[i]) \/ Strategy2(html[i]) \/ Strategy3(html[i]))

PageGetOk(c) == Len(Gets(c)) >= 1 /\ Gets(c)[1].result = "ok"

PageGetFailed(c) ==
    Len(Gets(c)) >= 1 /\ Gets(c)[1].result \in {"ConnectionError", "Timeout", "HTTPError"}

PdfGetOk(c) == Len(Gets(c)) = 2 /\ Gets(c)[2].result = "ok"

\* the file output_dir/{patent_number}.pdf exists and holds exactly data
FileHolds(c, data) ==
    LET k == FileKey(PathJoin(PathOf(c.output_dir.val),
                              c.patent_number.val \o <<".", "p", "d", "f">>), dirs)
    IN k.ok /\ k.key \in DOMAIN files /\ files[k.key] = data

DirCreated(c) ==
    WalkDirs(PathStart(PathOf(c.output_dir.val)), PathOf(c.output_dir.val).parts)
        \subseteq dirs

\* C5: when the page GET succeeds with a download anchor and the PDF GET
\* succeeds with body B, download_patent returns True, output_dir and its
\* parents exist and output_dir/{id}.pdf holds exactly B.
C5_SuccessWritesFile ==
    (calls # <<>> /\ PageGetOk(calls[1]) /\ HasDownloadAnchor(Gets(calls[1])[1].data)
        /\ PdfGetOk(calls[1])) =>
        /\ calls[1].outcome = "True"
        /\ DirCreated(calls[1])
        /\ FileHolds(calls[1], Gets(calls[1])[2].data)

\* C6: when the page GET fails with a transport failure or an HTTP error
\* status, download_patent raises NetworkError, issues no PDF GET and leaves
\* every file as it was.
C6_PageFailureRaisesNetworkError ==
    [][(calls = <<>> /\ calls' # <<>> /\ PageGetFailed(calls'[1])) =>
          /\ calls'[1].outcome = "NetworkError"
          /\ Len(Gets(calls'[1])) = 1
          /\ files' = files]_vars

\* NetworkError was raised with an earlier US1.pdf in place
C6_Witness ==
    /\ calls # <<>>
    /\ PageGetFailed(calls[1])
    /\ calls[1].outcome = "NetworkError"
    /\ files # NoFiles

\* C7 as stated: when the page is fetched and holds no anchor that any
\* strategy selects, download_patent raises PatentNotFoundError.
C7_NoLinkRaisesNotFound ==
    (calls # <<>> /\ PageGetOk(calls[1]) /\ ~HasDownloadAnchor(Gets(calls[1])[1].data)) =>
        calls[1].outcome = "PatentNotFoundError"

----------------------------------------------------------------------------
(* Properties of the fallbacks of _find_pdf_link (SpecLink) *)

\* the anchors of the page that carry an href, as the strategies see them
HrefAnchors == find_all_a_href(lContent)

\* the positions among HrefAnchors that each strategy matches
Matches1 == {i \in 1..Len(HrefAnchors) : Strategy1(HrefAnchors[i])}
Matches2 == {i \in 1..Len(HrefAnchors) : Strategy2(HrefAnchors[i])}
Matches3 == {i \in 1..Len(HrefAnchors) : Strategy3(HrefAnchors[i])}

\* C11 as stated: when no anchor of the page matches any of the three
\* strategies, _find_pdf_link returns exactly
\* https://patents.google.com/patent/{identifier}/en/download, which contains
\* "download"; and the second fallback
\* https://patents.google.com/xhr/query?url=patent={identifier}&download=true
\* is never returned for any input.
C11_GuessedUrlWhenNoMatch ==
    lResult.state = "returned" =>
        /\ (Matches1 \cup Matches2 \cup Matches3 = {}) =>
              /\ lResult.value = Str(GuessedUrl(lNumber))
              /\ Contains(lResult.value.val, <<"d", "o", "w", "n", "l", "o", "a", "d">>)
        /\ lResult.value # Str(XhrUrl(lNumber))

\* C11 amended: when no anchor of the page matches any of the three
\* strategies, _find_pdf_link returns exactly the guessed URL, which contains
\* "download"; the second fallback assignment never takes effect: whatever
\* the page, the value returned is the guessed URL or the normalised href of
\* an anchor the strategies matched, so the second fallback URL is returned
\* only when such an anchor's href spells it.
C11_SecondFallbackNeverAssigned ==
    lResult.state = "returned" =>
        /\ (Matches1 \cup Matches2 \cup Matches3 = {}) =>
              /\ lResult.value = Str(GuessedUrl(lNumber))
              /\ Contains(lResult.value.val, <<"d", "o", "w", "n", "l", "o", "a", "d">>)
        /\ \/ lResult.value = Str(GuessedUrl(lNumber))
           \/ \E i \in Matches1 \cup Matches2 \cup Matches3 :
                 lResult.value = NormalizeUrl(Str(HrefAnchors[i].href))

\* a page with anchors, none of which any strategy matches, gave the guessed
\* URL
C11_Witness ==
    /\ lResult.state = "returned"
    /\ Len(HrefAnchors) = MaxAnchors
    /\ Matches1 \cup Matches2 \cup Matches3 = {}
    /\ lResult.value = Str(GuessedUrl(lNumber))

----------------------------------------------------------------------------
(* Properties of _parse_patent_info (SpecParse) *)

\* the positions of the elements that carry itemprop = prop, whatever their
\* tag name
Tagged(prop) == {i \in 1..Len(pContent) : pContent[i].itemprop = prop}

\* the positions of the elements with tag name `name` and itemprop = prop
TaggedAs(name, prop) ==
    {i \in Tagged(prop) : pContent[i].name = name}

Headings == {i \in 1..Len(pContent) : pContent[i].name = "h1"}

\* value is the trimmed text of the first element among S, or the fallback
\* when S is empty
FirstOr(value, S, fallback) ==
    value = IF S = {} THEN fallback ELSE Strip(pContent[FirstIdx(S)].text)

\* names is the list, in document order, of the trimmed non-empty texts of
\* the elements among S
TrimmedNonEmpty(names, S) ==
    LET elems == SelectSeq(pContent,
                           LAMBDA e : e \in {pContent[i] : i \in S}
                                        /\ Strip(e.text) # <<>>)
    IN names = [i \in 1..Len(elems) |-> Strip(elems[i].text)]

TitleFallback ==
    IF Headings = {} THEN <<"U", "n", "k", "n", "o", "w", "n", " ", "T", "i", "t", "l", "e">>
    ELSE Strip(pContent[FirstIdx(Headings)].text)

\* C12 as stated: each field is the trimmed text of the first element tagged
\* with its itemprop, whatever the element's tag name, else that field's
\* fallback; inventors are the trimmed non-empty texts of all
\* inventor-tagged elements.
C12_FieldsFromTaggedElements ==
    pResult.state = "returned" =>
        /\ FirstOr(pResult.value.title, Tagged("title"), TitleFallback)
        /\ FirstOr(pResult.value.assignee, Tagged("assignee"), <<"U", "n", "k", "n", "o", "w", "n", " ", "A", "s", "s", "i", "g", "n", "e", "e">>)
        /\ FirstOr(pResult.value.publication_date, Tagged("publicationDate"), <<"U", "n", "k", "n", "o", "w", "n", " ", "D", "a", "t", "e">>)
        /\ FirstOr(pResult.value.abstract, Tagged("abstract"), <<"N", "o", " ", "a", "b", "s", "t", "r", "a", "c", "t", " ", "a", "v", "a", "i", "l", "a", "b", "l", "e">>)
        /\ TrimmedNonEmpty(pResult.value.inventors, Tagged("inventor"))

\* C12 amended: _parse_patent_info always returns, and each field depends
\* only on its own elements: title, assignee, publicationDate and abstract
\* equal the trimmed text of the first <span itemprop=title>,
\* <span itemprop=assignee>, <time itemprop=publicationDate> and
\* <div itemprop=abstract> when one exists, otherwise that field alone takes
\* its fallback (title: first h1 text, else "Unknown Title"; "Unknown
\* Assignee"; "Unknown Date"; "No abstract available"); inventors is the
\* list, in document order, of the trimmed non-empty texts of all
\* <span itemprop=inventor> elements.
C12_FieldsFromTaggedElementsOfTheirTag ==
    pResult.state = "returned" =>
        /\ FirstOr(pResult.value.title, TaggedAs("span", "title"), TitleFallback)
        /\ FirstOr(pResult.value.assignee, TaggedAs("span", "assignee"), <<"U", "n", "k", "n", "o", "w", "n", " ", "A", "s", "s", "i", "g", "n", "e", "e">>)
        /\ FirstOr(pResult.value.publication_date, TaggedAs("time", "publicationDate"), <<"U", "n", "k", "n", "o", "w", "n", " ", "D", "a", "t", "e">>)
        /\ FirstOr(pResult.value.abstract, TaggedAs("div", "abstract"), <<"N", "o", " ", "a", "b", "s", "t", "r", "a", "c", "t", " ", "a", "v", "a", "i", "l", "a", "b", "l", "e">>)
        /\ TrimmedNonEmpty(pResult.value.inventors, TaggedAs("span", "inventor"))

\* a page with a trimmed assignee and one inventor kept out of two, but no
\* title element, no date and no abstract: only those fields fall back, the
\* title to the heading
C12_Witness ==
    /\ pResult.state = "returned"
    /\ Len(pContent) = 4
    /\ pResult.value.title = <<"H", "1">>
    /\ pResult.value.inventors = << <<"A">> >>
    /\ Cardinality(Tagged("inventor")) = 2
    /\ pResult.value.assignee = <<"C", "o">>
    /\ pResult.value.publication_date = <<"U", "n", "k", "n", "o", "w", "n", " ", "D", "a", "t", "e">>
    /\ pResult.value.abstract = <<"N", "o", " ", "a", "b", "s", "t", "r", "a", "c", "t", " ", "a", "v", "a", "i", "l", "a", "b", "l", "e">>

----------------------------------------------------------------------------
(* Properties of the command line (SpecCli) *)

CliReturned == cliExit.state = "returned"

RequestedIds == Requested(cliArgs, cliWorld)

\* the network lets the i-th requested patent be downloaded: a
\* download_patent call for it returns True
Downloadable(i) ==
    download_patent(RequestedIds[i], cliArgs.output_dir, cliWorld.net[i],
                    BaseDirs, NoFiles).call.outcome = "True"

\* C13 as stated: run against the real PatentDownloader, the download command
\* exits with 0 exactly when every requested patent is downloaded
\* successfully and with 1 otherwise, whether the identifiers come as one
\* argument, as several arguments or from --file.
C13_ExitZeroIffAllDownloaded ==
    (CliReturned /\ ~cliMock) =>
        (cliExit.code = 0 <=>
            /\ ~UsageError(cliArgs)
            /\ \A i \in 1..Len(RequestedIds) : Downloadable(i))

\* C14 as stated: given two or more identifiers on the command line,
\* download_command calls download_patents exactly once with exactly two
\* arguments, the identifier list and the output directory, and returns 1 if
\* any flag of the returned map is False.
C14_BatchCalledWithTwoArguments ==
    (CliReturned /\ ~Truthy(cliArgs.file) /\ Len(cliArgs.patent_numbers) >= 2) =>
        /\ Len(cliCalls) = 1
        /\ cliCalls[1].method = "download_patents"
        /\ cliCalls[1].ids = cliArgs.patent_numbers
        /\ cliCalls[1].output_dir = cliArgs.output_dir
        /\ cliCalls[1].npos = 2
        /\ cliCalls[1].kwargs = {}
        /\ (cliCalls[1].returned.raise = "none"
              /\ failed(cliCalls[1].returned.items) # <<>>) => cliExit.code = 1

----------------------------------------------------------------------------
(* Properties of the MCP tool calls (SpecMcp) *)

McpDone == mResult.state # "pending"

KnownTool == mRequest.name \in {"download_patent", "download_patents", "get_patent_info"}

\* the argument the tool needs is missing or empty
MissingArgument ==
    IF mRequest.name = "download_patents"
    THEN mRequest.arguments.patent_numbers = <<>>
    ELSE ~Truthy(mRequest.arguments.patent_number)

\* C15: every tool call ends by returning a result, never by raising.  Its
\* error flag is set for an unknown tool name, for a missing patent_number or
\* empty patent_numbers argument (and then the downloader is not called at
\* all), when the downloader raises, when a single download returns False,
\* and for a batch exactly when the returned map holds a False flag; it is
\* not set otherwise.
C15_ToolCallReturnsErrorFlag ==
    McpDone =>
        /\ mResult.state = "returned"
        /\ ~KnownTool => (mResult.isError /\ mCalls = <<>>)
        /\ (KnownTool /\ MissingArgument) => (mResult.isError /\ mCalls = <<>>)
        /\ (KnownTool /\ mRequest.arguments.present /\ ~MissingArgument) =>
              /\ Len(mCalls) = 1
              /\ mCalls[1].method = mRequest.name
              /\ mResult.isError <=>
                    \/ mCalls[1].outcome \notin {"True", "False", "returned"}
                    \/ mCalls[1].outcome = "False"
                    \/ failed(mCalls[1].items) # <<>>

\* a batch call returned a map with a True and a False flag, and the result
\* carries the error flag
C15_Witness ==
    /\ McpDone
    /\ mRequest.name = "download_patents"
    /\ Len(mCalls) = 1
    /\ \E i, j \in 1..Len(mCalls[1].items) :
           mCalls[1].items[i].value /\ ~mCalls[1].items[j].value
    /\ mResult = [state |-> "returned", isError |-> TRUE]

----------------------------------------------------------------------------
(* Properties of the network failures of download_patent (SpecDownload) *)

\* the PDF GET was issued and failed with a transport failure or an HTTP
\* error status
PdfGetFailed(c) ==
    Len(Gets(c)) = 2 /\ Gets(c)[2].result \in {"ConnectionError", "Timeout", "HTTPError"}

\* C16 as stated: whenever the page GET or the PDF GET of a download_patent
\* call fails with a network error, the call raises NetworkError.
C16_NetworkFailureRaisesNetworkError ==
    (calls # <<>> /\ (PageGetFailed(calls[1]) \/ PdfGetFailed(calls[1]))) =>
        calls[1].outcome = "NetworkError"

----------------------------------------------------------------------------
(* Properties of the single-item operations (SpecSingle) *)

\* the identifier is empty, not a string, or shorter than 3 once trimmed
InvalidNumber(x) == x.type # "str" \/ TrimmedLen(x.val) < 3

\* C17 as stated: for every invalid identifier download_patent,
\* download_patent_data and get_patent_info each raise
\* InvalidPatentNumberError.
C17_InvalidNumberRaisesInvalidPatentNumberError ==
    (sResult.state = "done" /\ InvalidNumber(sNumber)) =>
        sResult.outcome = "InvalidPatentNumberError"

----------------------------------------------------------------------------
(* Properties of the PDF step of download_patent (SpecDownload) *)

\* the call went on to open output_dir/{id}.pdf: _download_pdf_data returned
OpenAttempted(c) == \E i \in 1..Len(c.io) : c.io[i].op = "open"

\* the PDF response does not look like a PDF: the body does not start with
\* %PDF, and the content type gave no reason to take it for one either
NotPdfLike(c) == c.warned /\ ~StartsWith(Gets(c)[2].data, <<"%", "P", "D", "F">>)

\* C18: a PDF response that does not look like a PDF is not a failure: when
\* the PDF GET succeeds with such a response, download_patent writes the body
\* to {id}.pdf as it came and returns True.
C18_NonPdfBodyIsWritten ==
    (calls # <<>> /\ PdfGetOk(calls[1]) /\ NotPdfLike(calls[1])) =>
        /\ calls[1].outcome = "True"
        /\ FileHolds(calls[1], Gets(calls[1])[2].data)

\* C19: a download_patent call issues at most two GETs: first the page GET
\* to https://patents.google.com/patent/{id}/en, then, only after the page
\* GET succeeded and a link was resolved, one PDF GET to the resolved URL
\* with Referer equal to the page URL; a failed GET is the last request of
\* the call.
C19_AtMostTwoGets ==
    calls # <<>> =>
        /\ Len(Gets(calls[1])) <= 2
        /\ Len(Gets(calls[1])) >= 1 =>
              /\ Gets(calls[1])[1].target = PatentUrl(calls[1].patent_number)
              /\ Gets(calls[1])[1].referer = <<>>
        /\ Len(Gets(calls[1])) = 2 =>
              /\ Gets(calls[1])[1].result = "ok"
              /\ Str(Gets(calls[1])[2].target) =
                    _find_pdf_link(Gets(calls[1])[1].data, calls[1].patent_number)
              /\ Gets(calls[1])[2].referer = PatentUrl(calls[1].patent_number)
        /\ \A i \in 1..Len(Gets(calls[1])) :
              Gets(calls[1])[i].result # "ok" => i = Len(Gets(calls[1]))

\* the PDF GET, sent to the anchor's link with the page URL as Referer,
\* failed and was not repeated
C19_Witness ==
    /\ calls # <<>>
    /\ Len(Gets(calls[1])) = 2
    /\ Gets(calls[1])[2].result = "HTTPError"
    /\ Gets(calls[1])[2].target = Origin \o <<"/", "d", "o", "w", "n", "l", "o", "a", "d">>
    /\ Gets(calls[1])[2].referer = Gets(calls[1])[1].target
    /\ calls[1].outcome = "False"

----------------------------------------------------------------------------
(* Properties of the cascade of _find_pdf_link (SpecLink) *)

\* the normalised href of the first anchor among the positions S
FirstHref(S) == NormalizeUrl(Str(HrefAnchors[FirstIdx(S)].href))

\* the first anchor among S carries a non-empty href
FirstHasLink(S) == S # {} /\ HrefAnchors[FirstIdx(S)].href # <<>>

\* C20 as stated: the first strategy with any match wins: the result is the
\* first anchor matching strategy 1 if there is one, else the first matching
\* strategy 2 if there is one, else the first matching strategy 3 if there
\* is one, else the guessed URL.
C20_FirstStrategyWithMatchWins ==
    lResult.state = "returned" =>
        lResult.value =
            IF Matches1 # {} THEN FirstHref(Matches1)
            ELSE IF Matches2 # {} THEN FirstHref(Matches2)
            ELSE IF Matches3 # {} THEN FirstHref(Matches3)
            ELSE Str(GuessedUrl(lNumber))

\* C20 amended: the first strategy whose first match carries a non-empty
\* href wins: the result is the first anchor matching strategy 1 if there is
\* one (even when an anchor matching only strategy 2 or 3 comes earlier);
\* else the first matching strategy 2 if there is one and its href is not
\* empty; else the first matching strategy 3 if there is one; else the
\* guessed URL.
C20_FirstStrategyWithLinkWins ==
    lResult.state = "returned" =>
        lResult.value =
            IF FirstHasLink(Matches1) THEN FirstHref(Matches1)
            ELSE IF FirstHasLink(Matches2) THEN FirstHref(Matches2)
            ELSE IF FirstHasLink(Matches3) THEN FirstHref(Matches3)
            ELSE Str(GuessedUrl(lNumber))

\* the second anchor matches strategy 1 and is returned although the first
\* anchor matches strategies 2 and 3
C20_Witness ==
    /\ lResult.state = "returned"
    /\ Len(HrefAnchors) = 2
    /\ Matches1 = {2}
    /\ 1 \in Matches2 \cap Matches3
    /\ HrefAnchors[1].href # <<>>
    /\ lResult.value = FirstHref({2})
    /\ lResult.value # FirstHref({1})

----------------------------------------------------------------------------
(* Properties of the normalisation of _find_pdf_link (SpecLink) *)

\* the link the cascade selected, before normalisation: the href of the first
\* strategy whose first match carries one, else the guessed URL
SelectedLink ==
    IF FirstHasLink(Matches1) THEN HrefAnchors[FirstIdx(Matches1)].href
    ELSE IF FirstHasLink(Matches2) THEN HrefAnchors[FirstIdx(Matches2)].href
    ELSE IF FirstHasLink(Matches3) THEN HrefAnchors[FirstIdx(Matches3)].href
    ELSE GuessedUrl(lNumber)

\* the page is the single anchor <a href="/download.pdf">Download PDF</a>
DownloadPdfPage ==
    lContent = <<Anchor(TRUE, <<"/", "d", "o", "w", "n", "l", "o", "a", "d", ".", "p", "d", "f">>, <<"D", "o", "w", "n", "l", "o", "a", "d", " ", "P", "D", "F">>)>>

\* C21 as stated: the selected link is normalised by its shape: one that
\* starts with "/" becomes https://patents.google.com followed by it; one
\* that lacks a scheme becomes https://patents.google.com/ followed by it;
\* one that has a scheme is returned unchanged, in its original letter case.
\* In particular <a href="/download.pdf">Download PDF</a> yields
\* https://patents.google.com/download.pdf.
C21_NormalizedByScheme ==
    lResult.state = "returned" =>
        /\ lResult.value.val =
              IF StartsWith(SelectedLink, <<"/">>) THEN Origin \o SelectedLink
              ELSE IF ~HasScheme(SelectedLink)
                   THEN Origin \o <<"/">> \o SelectedLink
              ELSE SelectedLink
        /\ DownloadPdfPage =>
              lResult.value = Str(<<"h", "t", "t", "p", "s", ":", "/", "/", "p", "a", "t", "e", "n", "t", "s", ".", "g", "o", "o", "g", "l", "e", ".", "c", "o", "m", "/", "d", "o", "w", "n", "l", "o", "a", "d", ".", "p", "d", "f">>)

----------------------------------------------------------------------------
(* Properties of the rejection of invalid identifiers (SpecSingle) *)

\* C22: a call of download_patent, download_patent_data or get_patent_info
\* with an identifier that fails validation issues no HTTP request, creates
\* no directory and writes no file: the call performs no I/O operation at
\* all and leaves the directories and the files as they were.
C22_InvalidNumberDoesNoIo ==
    [][InvalidNumber(sNumber) =>
          /\ sResult'.io = <<>>
          /\ dirs' = dirs
          /\ files' = files]_vars

\* get_patent_info was called with an identifier that is too short only
\* once trimmed, and ended with an error and without any I/O
C22_Witness ==
    /\ sResult.state = "done"
    /\ sOp = "get_patent_info"
    /\ sNumber = Str(<<" ", "A", "\t">>)
    /\ sResult.outcome = "PatentNotFoundError"
    /\ sResult.io = <<>>
    /\ dirs = BaseDirs
    /\ files = NoFiles

----------------------------------------------------------------------------
(* Properties of the outcomes of download_patent (SpecDownload) *)

\* the four errors of the package's taxonomy
TaxonomyErrors ==
    {"InvalidPatentNumberError", "NetworkError", "PatentNotFoundError",
     "DownloadFailedError"}

\* the exceptions the I/O operations of the call raised that are neither a
\* RequestException nor an error of the package
ForeignErrors(c) ==
    {c.io[i].result : i \in 1..Len(c.io)}
        \ ({"ok", "none"} \cup {e \in {c.io[i].result : i \in 1..Len(c.io)} :
                                   IsRequestException(e) \/ IsPatentDownloadError(e)})

\* C23: whatever the identifier, the directory argument and the failures of
\* the network and the filesystem, download_patent returns a boolean or
\* raises one of the four taxonomy errors; an exception from outside the
\* taxonomy never leaves the call as it is: when the call raises after one
\* occurred, it raises DownloadFailedError; and a directory argument that is
\* not a string, which makes Path() raise TypeError, gives
\* DownloadFailedError too.
C23_ClosedSetOfOutcomes ==
    calls # <<>> =>
        /\ calls[1].outcome \in {"True", "False"} \cup TaxonomyErrors
        /\ (ForeignErrors(calls[1]) # {} /\ IsError(calls[1].outcome)) =>
              calls[1].outcome = "DownloadFailedError"
        /\ (_validate_patent_number(calls[1].patent_number) = "ok"
              /\ calls[1].output_dir.type # "str") =>
              calls[1].outcome = "DownloadFailedError"

\* Path.mkdir raised PermissionError and the call raised DownloadFailedError
C23_Witness ==
    /\ calls # <<>>
    /\ ForeignErrors(calls[1]) = {"PermissionError"}
    /\ calls[1].io[1].op = "mkdir"
    /\ calls[1].outcome = "DownloadFailedError"

----------------------------------------------------------------------------
(* Properties of the shared session (SpecServer) *)

\* C24 as stated: the session of the server's PatentDownloader is never
\* used by two calls at the same time: at most one of the tool calls the
\* server is handling is inside session.get.
C24_SessionUsedByOneCallAtATime == Cardinality(session) <= 1

----------------------------------------------------------------------------
(* Properties of the output file of download_patent (SpecDownload) *)

\* the position of the call's open() among its I/O operations, 0 if none
OpenAt(c) == FirstIdx({i \in 1..Len(c.io) : c.io[i].op = "open"})

\* the file f is as it was before the step, or holds exactly data
KeptOrHolds(f, data) ==
    \/ f \in DOMAIN files /\ files'[f] = files[f]
    \/ files'[f] = data

\* C25 as stated: output_dir/{id}.pdf is opened only after the PDF GET
\* succeeded; when download_patent raises, or returns False after a failed
\* PDF GET, no file is created and every file keeps its content; and when it
\* returns False for whatever reason, no file is left with partial or
\* truncated content: every file is as it was or holds the whole body.
C25_NoPartialFileLeftBehind ==
    [][calls' # <<>> =>
          /\ OpenAttempted(calls'[1]) =>
                /\ PdfGetOk(calls'[1])
                /\ \A i \in 1..Len(calls'[1].io) :
                      calls'[1].io[i].op = "GET" => i < OpenAt(calls'[1])
          /\ (IsError(calls'[1].outcome)
                \/ (calls'[1].outcome = "False" /\ PdfGetFailed(calls'[1]))) =>
                files' = files
          /\ calls'[1].outcome = "False" =>
                \A f \in DOMAIN files' :
                    KeptOrHolds(f, IF PdfGetOk(calls'[1])
                                   THEN Gets(calls'[1])[2].data ELSE <<>>)]_vars

----------------------------------------------------------------------------
(* Properties of the location of the output file (SpecDownload) *)

\* the directory the output_dir argument of the call names
OutputDirOf(c) ==
    Walk(PathStart(PathOf(c.output_dir.val)), PathOf(c.output_dir.val).parts, dirs).at

\* the files the call opened for writing, which open(..., "wb") creates or
\* truncates
OpenedFiles(c) ==
    {c.io[i].target : i \in {j \in 1..Len(c.io) :
                                c.io[j].op = "open" /\ c.io[j].result = "none"}}

\* C26 as stated: for every identifier that passes validation, whatever
\* characters it contains, every file download_patent creates or overwrites
\* lies directly inside the output directory, never in a parent or in any
\* other directory.
C26_FileOnlyInsideOutputDir ==
    (calls # <<>> /\ _validate_patent_number(calls[1].patent_number) = "ok") =>
        \A f \in OpenedFiles(calls[1]) : Front(f) = OutputDirOf(calls[1])

====
